---- MODULE Spec2Model ----
(***************************************************************************)
(* Call-record pipeline of getlisa/backend-scripts:                        *)
(*   - ingestion        src/unnamed/part_000     (Retell AI -> call_logs)  *)
(*   - enrichment       src/staging/gpt-process.js                         *)
(*   - booking sync     src/staging/zt-integration.js                      *)
(* The three scripts share the store (call_logs, zt_manual_sync,           *)
(* zt_sync_logs, user_profiles, zentrades_tokens).  Every store or HTTP    *)
(* call is one atomic step with an outcome chosen by the environment.      *)
(***************************************************************************)
EXTENDS Integers, Sequences, FiniteSets, TLC

\* ------------------------------------------------------------------ bounds
\* Ingestion runs started in one behaviour.
MaxRuns == 2
\* Changes the call-listing provider makes to its snapshots in one behaviour.
MaxRetellChanges == 1
\* Length of the freely chosen (small) listings of agent a1.
SmallCalls == 2
\* How far the large listings of agent a1 exceed the per-run cap.
OverCap == 1
\* Runs of runManualQueue each of the two booking-sync processes starts.
MaxSyncRuns == 1
\* Requests of the booking-sync processes (to the store or to the booking
\* platform) that fail in one behaviour.
MaxFaults == 1
\* Queue entries put back to 'pending' from outside.
MaxReenqueues == 1
\* Enrichment cycles each of the two enrichment processes starts.
MaxEnrichRuns == 1
\* Ingestion runs interleaved with the enrichment processes.
MaxRunsWithEnrich == 1
\* bulkUpsertCalls is exercised on up to MaxChunks full chunks and one row more
MaxChunks == 2
\* Pending queue entries beyond the limit of one poll.
ExtraPending == 2
\* Records an enrichment cycle selects beyond one full batch.
ExtraSelected == 1

\* ------------------------------------------------------- program constants
maxCallsToProcessCap == 50
processBatchSize == 10
upsertBatchSize == 100
retellLimit == 1000
gptStatusDefault == 0
gptSelectLimit == 50
\* The batch size of the ingestion pipeline.
gptBatchSizeOfIngestion == processBatchSize
gptBatchSize == 5
minTranscriptLength == 50

\* ------------------------------------------------------------------ values
\* Every column value is a string; NULL stands for JS null / undefined.
NULL == "<null>"

Min(a, b) == IF a < b THEN a ELSE b

\* JS truthiness of a string-or-null value, and the  a || b  operator.
Falsy(v) == v = NULL \/ v = ""
OrElse(a, b) == IF Falsy(a) THEN b ELSE a

Outcomes == {"ok", "error", "throw"}

Agents == {"a1", "a2"}
TerminalStatuses == {"ended", "failed"}
StatusUniverse == {"ongoing", "ended", "failed"}

VARIABLES
  \* the store and the collaborators
  call_logs,        \* [call_id -> row], DOMAIN = the stored call_ids
  user_profiles,    \* sequence of [user_id, agent_id]
  retell,           \* [agent -> sequence of snapshots], newest first
  now,              \* the clock read by  new Date()
  extChanges,       \* number of provider changes so far
  \* processAllAgents
  ipc, iruns, agentIds, ai, callsFromRetellAI, existingCallsMap,
  callsToProcess, processedCalls, ui, upsertResult, totalResults,
  \* per-run record kept for the statements about successive runs
  runLog, hist,
  \* processGPTExtraction, one instance per enrichment process
  epc, eruns, ecalls, eresults, ei, ecounts, estatus,
  ewrites,          \* the store writes a cycle has issued so far, in order
  \* booking sync: the queue, the audit table, the credentials, the bookings
  \* held by the booking platform, and runManualQueue, one instance per process
  zt_manual_sync, zt_sync_logs, zentrades_tokens, zt_bookings, sync, faults

storeVars == <<call_logs, user_profiles>>
envVars == <<retell, extChanges>>
ingVars == <<ipc, iruns, agentIds, ai, callsFromRetellAI, existingCallsMap,
             callsToProcess, processedCalls, ui, upsertResult, totalResults,
             runLog, hist>>
enrVars == <<epc, eruns, ecalls, eresults, ei, ecounts, estatus, ewrites>>
syncVars == <<zt_manual_sync, zt_sync_logs, zentrades_tokens, zt_bookings, sync,
              faults>>
vars == <<call_logs, user_profiles, retell, now, extChanges, ingVars, enrVars,
          syncVars>>

\* ------------------------------------------------------------------- texts
\* The transcripts of the model, and the classifier keywords their lower-cased
\* text includes.
TranscriptLong == "Hi, my water heater is leaking and I need someone to repair it this week."
TranscriptRevised == "Hi, my water heater is leaking, it is urgent, please send someone today."
TranscriptShort == "Wrong number, sorry."

TextLength(s) == Len(s)

IncludedKeywords(s) ==
  CASE s = TranscriptLong -> {"repair"}
    [] s = TranscriptRevised -> {"urgent"}
    [] s = TranscriptShort -> {}
    [] OTHER -> {}

\* ------------------------------------------------------------ classifyIntent
classifyIntent(text) ==
  LET content == IncludedKeywords(text) IN
  IF content \cap {"emergency", "urgent", "asap"} # {} THEN "Emergency"
  ELSE IF content \cap {"service", "repair", "fix"} # {} THEN "Service"
  ELSE IF content \cap {"quote", "estimate", "price"} # {} THEN "Quotation"
  ELSE "Inquiry"

LeadTypes == {"Service", "Emergency", "Quotation"}

\* ---------------------------------------------------------------- snapshots
Snapshot(id, st, tr) ==
  [call_id |-> id, call_status |-> st, transcript |-> tr,
   from_number |-> NULL, client_name |-> NULL, client_address |-> NULL,
   client_email |-> NULL, appointment_date |-> NULL, appointment_time |-> NULL,
   appointment_start |-> NULL, appointment_end |-> NULL,
   summary |-> NULL, quick_summary |-> NULL, job_description |-> NULL,
   job_type |-> NULL,
   \* call_analysis.call_summary, call_analysis.custom_analysis_data.job_type
   call_summary |-> NULL, custom_job_type |-> NULL,
   \* collected_dynamic_variables
   user_name |-> NULL, validated_address |-> NULL, raw_input |-> NULL,
   user_email |-> NULL]

\* A listing of n calls n, n-1, .., 1 (sort_order descending), all with status st.
UniformListing(n, st) == [i \in 1..n |-> Snapshot(n + 1 - i, st, TranscriptLong)]

SmallListings ==
  UNION { { [i \in 1..n |-> Snapshot(n + 1 - i, sts[i], TranscriptLong)] :
             sts \in [1..n -> StatusUniverse] } : n \in 0..SmallCalls }

\* What the provider lists for the second agent: nothing, or one ended call
\* (the latter next to a first agent with at most one call).
SecondAgentListings(first) ==
  IF Len(first) <= 1 THEN {<<>>, <<Snapshot(100, "ended", TranscriptShort)>>}
  ELSE {<<>>}

LargeListings ==
  { UniformListing(n, st) :
      n \in (maxCallsToProcessCap + 1)..(maxCallsToProcessCap + OverCap),
      st \in {"ongoing", "ended"} }

\* ------------------------------------------------------- normalizeDateFields
\* The strings the model's snapshots carry in date and time fields.
DatePlaceholders == {"", "null", "undefined", "unknown", "Not specified",
                     "next week", "tomorrow morning"}
EpochStrings == {"1710000000000"}
EpochDate(s) == IF s = "1710000000000" THEN "2024-03-09" ELSE NULL
EpochTime(s) == IF s = "1710000000000" THEN "16:00:00" ELSE NULL
ParsableDates == {"2025-06-01", "2025-06-02", "2025-12-01", "2024-03-10", "2024-03-09"}
ClockStrings == {"09:00", "14:30", "9:00:30"}
DateFields == {"appointment_date"}
TimeFields == {"appointment_time", "appointment_start", "appointment_end"}

normalizeDateField(field, v) ==
  IF v = NULL THEN NULL
  ELSE IF v \in DatePlaceholders THEN NULL
  ELSE IF v \in EpochStrings THEN
         IF field \in DateFields THEN EpochDate(v)
         ELSE IF field \in TimeFields THEN EpochTime(v) ELSE v
  ELSE IF field \in DateFields THEN (IF v \in ParsableDates THEN v ELSE NULL)
  ELSE IF field \in TimeFields THEN (IF v \in ClockStrings THEN v ELSE NULL)
  ELSE v

\* ------------------------------------------------------------ processCalls
MapCall(call, agentId, t) ==
  LET intent == classifyIntent(OrElse(call.transcript, OrElse(call.summary, "")))
  IN
  [call_id |-> call.call_id,
   agent_id |-> agentId,
   call_status |-> OrElse(call.call_status, NULL),
   transcript |-> OrElse(call.transcript, NULL),
   from_number |-> OrElse(call.from_number, NULL),
   appointment_date |->
     normalizeDateField("appointment_date", OrElse(call.appointment_date, NULL)),
   appointment_time |->
     normalizeDateField("appointment_time", OrElse(call.appointment_time, NULL)),
   client_name |-> OrElse(call.user_name, OrElse(call.client_name, NULL)),
   client_address |->
     OrElse(call.validated_address,
            OrElse(call.raw_input, OrElse(call.client_address, NULL))),
   client_email |-> OrElse(call.user_email, OrElse(call.client_email, NULL)),
   updated_at |-> t,
   intent |-> intent,
   summary |-> OrElse(call.summary, OrElse(call.call_summary, NULL)),
   quick_summary |-> OrElse(call.quick_summary, NULL),
   lead_type |-> IF intent \in LeadTypes THEN intent ELSE NULL,
   job_description |-> OrElse(call.job_description, NULL),
   job_type |-> OrElse(call.custom_job_type, OrElse(call.job_type, NULL)),
   appointment_start |->
     normalizeDateField("appointment_start", OrElse(call.appointment_start, NULL)),
   appointment_end |->
     normalizeDateField("appointment_end", OrElse(call.appointment_end, NULL))]

RECURSIVE MapBatches(_, _, _, _)
MapBatches(calls, i, agentId, t) ==
  IF i >= Len(calls) THEN <<>>
  ELSE LET batch == SubSeq(calls, i + 1, Min(i + processBatchSize, Len(calls)))
       IN [k \in 1..Len(batch) |-> MapCall(batch[k], agentId, t)]
          \o MapBatches(calls, i + processBatchSize, agentId, t)

\* A mapper whose per-run cap is 1 instead of 50.
processCallsCapOne(calls, agentId, t) ==
  MapBatches(SubSeq(calls, 1, Min(Len(calls), 1)), 0, agentId, t)

processCalls(calls, agentId, t) ==
  LET maxCallsToProcess == Min(Len(calls), maxCallsToProcessCap)
      callsToProcessNow == SubSeq(calls, 1, maxCallsToProcess)
  IN MapBatches(callsToProcessNow, 0, agentId, t)

\* ------------------------------------------------- filterCallsForProcessing
\* A reconciler that forgets the second terminal status.
NeedsProcessingEndedOnly(call, existingMap) ==
  IF call.call_id \notin DOMAIN existingMap THEN TRUE
  ELSE IF existingMap[call.call_id] = "ended" THEN FALSE
  ELSE TRUE

NeedsProcessing(call, existingMap) ==
  IF call.call_id \notin DOMAIN existingMap THEN TRUE
  ELSE IF existingMap[call.call_id] \in TerminalStatuses THEN FALSE
  ELSE TRUE

filterCallsForProcessing(calls, existingMap) ==
  SelectSeq(calls, LAMBDA call : NeedsProcessing(call, existingMap))

\* --------------------------------------------------- bulkCheckExistingCalls
\* The map  call_id -> call_status  the lookup returns for outcome o.
bulkCheckExistingCalls(callIds, o) ==
  IF callIds = {} \/ o = "error" THEN << >>
  ELSE [c \in callIds \cap DOMAIN call_logs |-> call_logs[c].call_status]

\* ------------------------------------------------------------------- upsert
\* upsert(batch, { onConflict: 'call_id' }): the columns of the payload replace
\* the stored ones; columns outside the payload keep their value, or take the
\* column default on insert.
UpsertRows(store, rows) ==
  LET ids == {rows[i].call_id : i \in DOMAIN rows}
      Last(c) == CHOOSE i \in DOMAIN rows :
                   /\ rows[i].call_id = c
                   /\ \A j \in DOMAIN rows : rows[j].call_id = c => j <= i
      gs(c) == IF c \in DOMAIN store THEN store[c].gpt_status ELSE gptStatusDefault
  IN [c \in DOMAIN store \cup ids |->
        IF c \in ids THEN rows[Last(c)] @@ [gpt_status |-> gs(c)] ELSE store[c]]

\* --------------------------------------------------------- processAllAgents
AgentResult(agentId, err, fetched, existing, processed, res) ==
  [agent_id |-> agentId, error |-> err, total_fetched |-> fetched,
   existing_calls |-> existing, processed |-> processed,
   success |-> res.success, failed |-> res.failed]

ZeroResult == [success |-> 0, failed |-> 0]

\* The sum of one counter over the per-agent results (totalResults.reduce).
RECURSIVE SumOf(_, _)
SumOf(results, counter) ==
  IF Len(results) = 0 THEN 0
  ELSE results[1][counter] + SumOf(Tail(results), counter)

\* The aggregate summary processAllAgents logs after the loop over the agents.
NoSummary ==
  [emitted |-> FALSE, total_fetched |-> 0, existing_calls |-> 0, processed |-> 0,
   success |-> 0, failed |-> 0, agents |-> 0]

AggregateSummary(results, ids) ==
  [emitted |-> TRUE,
   total_fetched |-> SumOf(results, "total_fetched"),
   existing_calls |-> SumOf(results, "existing_calls"),
   processed |-> SumOf(results, "processed"),
   success |-> SumOf(results, "success"),
   failed |-> SumOf(results, "failed"),
   agents |-> Len(ids)]

\* The record of a run: whether every collaborator call succeeded so far, the
\* agent enumeration succeeded, the agents whose listing request failed,
\* the summary once logged, and the exit code once the promise of
\* processAllAgents has settled (-1 before).
NewRunLog ==
  [clean |-> TRUE, lookupOk |-> TRUE, maxToProcess |-> 0, enumerated |-> TRUE,
   listingFailed |-> {}, summary |-> NoSummary, exitCode |-> -1]

\* main: exit code 0 when the promise resolves, 1 when it rejects.
ExitCode(rejected) == IF rejected THEN 1 ELSE 0

\* Control after one agent's iteration of the for loop ended.
NextAgent ==
  /\ ai' = ai + 1
  /\ ipc' = IF ai + 1 > Len(agentIds) THEN "summary" ELSE "fetch"

\* getAllAgents: rows with a non-null agent_id, or [] when the query fails.
getAllAgents(o) ==
  IF o = "ok"
  THEN LET withAgent == SelectSeq(user_profiles, LAMBDA r : ~Falsy(r.agent_id))
       IN [i \in 1..Len(withAgent) |-> withAgent[i].agent_id]
  ELSE <<>>

StartRun ==
  /\ ipc = "idle"
  /\ iruns < MaxRuns
  /\ \E o \in Outcomes :
       LET ids == getAllAgents(o) IN
       /\ agentIds' = ids
       /\ ipc' = IF Len(ids) = 0 THEN "done" ELSE "fetch"
       /\ runLog' = [NewRunLog EXCEPT
                       !.clean = (o = "ok"),
                       !.enumerated = (o = "ok"),
                       !.exitCode = IF Len(ids) = 0 THEN ExitCode(FALSE) ELSE -1]
  /\ iruns' = iruns + 1
  /\ now' = now + 1
  /\ ai' = 1
  /\ UNCHANGED <<enrVars, syncVars, storeVars, envVars, hist, totalResults, callsFromRetellAI,
                 existingCallsMap, callsToProcess, processedCalls, ui, upsertResult>>

\* fetchCallsFromRetellAPI: the listing, or [] on a failed request.
fetchCallsFromRetellAPI(agentId, o) ==
  IF o = "ok" THEN SubSeq(retell[agentId], 1, Min(Len(retell[agentId]), retellLimit))
  ELSE <<>>

FetchCalls ==
  /\ ipc = "fetch"
  /\ \E o \in Outcomes :
       LET data == fetchCallsFromRetellAPI(agentIds[ai], o) IN
       /\ runLog' = [runLog EXCEPT
                       !.clean = @ /\ o = "ok",
                       !.listingFailed =
                          IF o = "ok" THEN @ ELSE @ \cup {agentIds[ai]}]
       /\ IF Len(data) = 0
          THEN /\ totalResults' =
                    Append(totalResults,
                           AgentResult(agentIds[ai], NULL, 0, 0, 0, ZeroResult))
               /\ NextAgent
               /\ UNCHANGED callsFromRetellAI
          ELSE /\ callsFromRetellAI' = data
               /\ ipc' = "check"
               /\ UNCHANGED <<ai, totalResults>>
  /\ UNCHANGED <<enrVars, syncVars, storeVars, envVars, now, iruns, agentIds, existingCallsMap,
                 callsToProcess, processedCalls, ui, upsertResult, hist>>

\* A catch block that pushes the error-tagged result and leaves the loop.
AgentCatchLeavingLoop ==
  /\ totalResults' =
       Append(totalResults,
              AgentResult(agentIds[ai], "thrown", 0, 0, 0, ZeroResult))
  /\ ai' = ai
  /\ ipc' = "summary"

\* The per-agent catch block: an error-tagged result, then the next agent.
AgentCatch ==
  /\ totalResults' =
       Append(totalResults,
              AgentResult(agentIds[ai], "thrown", 0, 0, 0, ZeroResult))
  /\ NextAgent

\* bulkCheckExistingCalls, filterCallsForProcessing and, when something is to
\* be processed, processCalls.
BulkCheck ==
  /\ ipc = "check"
  /\ \E o \in Outcomes :
       IF o = "throw"
       THEN /\ AgentCatch
            /\ runLog' = [runLog EXCEPT !.clean = FALSE]
            /\ UNCHANGED <<existingCallsMap, callsToProcess, processedCalls>>
       ELSE LET callIds == {callsFromRetellAI[i].call_id :
                              i \in DOMAIN callsFromRetellAI}
                existing == bulkCheckExistingCalls(callIds, o)
                toProcess == filterCallsForProcessing(callsFromRetellAI, existing)
            IN /\ existingCallsMap' = existing
               /\ callsToProcess' = toProcess
               /\ processedCalls' =
                    IF Len(toProcess) = 0 THEN <<>>
                    ELSE processCalls(toProcess, agentIds[ai], now)
               /\ ipc' = "upsert"
               /\ runLog' = [runLog EXCEPT
                               !.lookupOk = @ /\ o = "ok",
                               !.maxToProcess =
                                  IF Len(toProcess) > @ THEN Len(toProcess) ELSE @]
               /\ UNCHANGED <<ai, totalResults>>
  /\ ui' = 0
  /\ upsertResult' = ZeroResult
  /\ UNCHANGED <<enrVars, syncVars, storeVars, envVars, now, iruns, agentIds, callsFromRetellAI, hist>>

\* Nothing to process: the agent's result is pushed without touching the store.
NothingToProcess ==
  /\ ipc = "upsert"
  /\ Len(callsToProcess) = 0
  /\ totalResults' =
       Append(totalResults,
              AgentResult(agentIds[ai], NULL, Len(callsFromRetellAI),
                          Cardinality(DOMAIN existingCallsMap), 0, ZeroResult))
  /\ NextAgent
  /\ UNCHANGED <<enrVars, syncVars, storeVars, envVars, now, iruns, agentIds, callsFromRetellAI,
                 existingCallsMap, callsToProcess, processedCalls, ui, upsertResult,
                 runLog, hist>>

\* The counters of bulkUpsertCalls after a chunk, were a failed chunk not counted.
CountChunkOkOnly(res, batch, o) ==
  IF o = "ok" THEN [res EXCEPT !.success = @ + Len(batch)] ELSE res

\* The counters of bulkUpsertCalls after a chunk whose upsert returned o.
CountChunk(res, batch, o) ==
  IF o = "ok"
  THEN [res EXCEPT !.success = @ + Len(batch)]
  ELSE [res EXCEPT !.failed = @ + Len(batch)]

\* One iteration of bulkUpsertCalls' loop; after the last one the agent's result.
UpsertChunk ==
  /\ ipc = "upsert"
  /\ Len(callsToProcess) > 0
  /\ \E o \in Outcomes :
       LET batch == SubSeq(processedCalls, ui + 1,
                           Min(ui + upsertBatchSize, Len(processedCalls)))
           res == CountChunk(upsertResult, batch, o)
       IN
       /\ runLog' = [runLog EXCEPT !.clean = @ /\ o = "ok"]
       /\ call_logs' = IF o = "ok" THEN UpsertRows(call_logs, batch) ELSE call_logs
       /\ IF o = "throw"
          THEN /\ AgentCatch
               /\ UNCHANGED <<ui, upsertResult>>
          ELSE /\ upsertResult' = res
               /\ ui' = ui + upsertBatchSize
               /\ IF ui + upsertBatchSize >= Len(processedCalls)
                  THEN /\ totalResults' =
                            Append(totalResults,
                                   AgentResult(agentIds[ai], NULL,
                                               Len(callsFromRetellAI),
                                               Cardinality(DOMAIN existingCallsMap),
                                               Len(callsToProcess), res))
                       /\ NextAgent
                  ELSE UNCHANGED <<ai, ipc, totalResults>>
  /\ UNCHANGED <<enrVars, syncVars, user_profiles, envVars, now, iruns, agentIds, callsFromRetellAI,
                 existingCallsMap, callsToProcess, processedCalls, hist>>

\* The aggregate summary and the per-agent breakdown; processAllAgents
\* returns and main exits with code 0.
Summary ==
  /\ ipc = "summary"
  /\ ipc' = "done"
  /\ runLog' = [runLog EXCEPT
                  !.summary = AggregateSummary(totalResults, agentIds),
                  !.exitCode = ExitCode(FALSE)]
  /\ UNCHANGED <<enrVars, syncVars, storeVars, envVars, now, iruns, agentIds, ai, callsFromRetellAI,
                 existingCallsMap, callsToProcess, processedCalls, ui, upsertResult,
                 totalResults, hist>>

\* The process exits, and its memory with it; the scheduler may start the script
\* again.  hist keeps the run that just finished: whether any collaborator call
\* failed in it, the most snapshots it selected for one agent, and the store it
\* left.
EndRun ==
  /\ ipc = "done"
  /\ ipc' = "idle"
  /\ hist' = << [clean |-> runLog.clean, maxToProcess |-> runLog.maxToProcess,
                 store |-> call_logs] >>
  /\ agentIds' = <<>>
  /\ ai' = 1
  /\ callsFromRetellAI' = <<>>
  /\ existingCallsMap' = << >>
  /\ callsToProcess' = <<>>
  /\ processedCalls' = <<>>
  /\ ui' = 0
  /\ upsertResult' = ZeroResult
  /\ totalResults' = <<>>
  /\ runLog' = NewRunLog
  /\ UNCHANGED <<enrVars, syncVars, storeVars, envVars, now, iruns>>

\* =============================================================== enrichment
Runners == {1, 2}

\* The structured result of the extraction provider; a field is NULL when the
\* model returned null for it or left it out.
ExtractionEmpty ==
  [client_name |-> NULL, client_email |-> NULL, client_address |-> NULL,
   appointment_date |-> NULL, appointment_time |-> NULL, summary |-> NULL,
   quick_summary |-> NULL, intent_category |-> NULL, job_description |-> NULL,
   job_type |-> NULL, appointment_start |-> NULL, appointment_end |-> NULL]

ExtractionA ==
  [client_name |-> "Ann Lee", client_email |-> "ann@example.com",
   client_address |-> "12 Oak St, Springfield, IL 62704",
   appointment_date |-> "2025-06-01", appointment_time |-> "09:00",
   summary |-> "Caller reports a leaking water heater and asks for a repair.",
   quick_summary |-> "Leaking water heater.", intent_category |-> "Service",
   job_description |-> "Repair leaking water heater", job_type |-> "Plumbing",
   appointment_start |-> "09:30", appointment_end |-> "10:30"]

ExtractionB ==
  [client_name |-> NULL, client_email |-> "ann.lee@work.example",
   client_address |-> NULL,
   appointment_date |-> "2025-06-02", appointment_time |-> "14:30",
   summary |-> "Caller wants a water heater looked at.",
   quick_summary |-> NULL, intent_category |-> "Inquiry",
   job_description |-> NULL, job_type |-> NULL,
   appointment_start |-> NULL, appointment_end |-> NULL]

\* The objects the extraction provider's content can parse to.
ExtractionUniverse == {ExtractionEmpty, ExtractionA, ExtractionB}

\* What can happen to the request of extractContactInfoAndSummaries: the content
\* parses to an object; the content is not JSON; the provider answers with an
\* error body (no choices); fetch rejects; the message content is null.
ExtractionOutcomes ==
  {"parsed", "unparseable", "error response", "network error", "null content"}

ExtractionReplies ==
  { [outcome |-> "parsed", value |-> x] : x \in {ExtractionA, ExtractionB} }
    \cup { [outcome |-> o, value |-> ExtractionEmpty] :
              o \in ExtractionOutcomes \ {"parsed"} }

\* extractContactInfoAndSummaries: the parsed object; {} when JSON.parse throws
\* (content that is not JSON, or undefined after an error body) or when fetch
\* rejects; null when the content is null, JSON.parse(null) being null.
\* isNull tells the null apart, value is the object otherwise.
extractContactInfoAndSummaries(reply) ==
  [isNull |-> reply.outcome = "null content",
   value |-> IF reply.outcome = "parsed" THEN reply.value ELSE ExtractionEmpty]

\* The columns processCallsWithGPT may put into updateData, and for each the
\* value of the extraction result it reads.
EnrichedColumns ==
  {"appointment_date", "appointment_time", "client_name", "client_address",
   "client_email", "intent", "summary", "quick_summary", "job_description",
   "job_type", "appointment_start", "appointment_end", "lead_type"}

ExtractedFor(x, col) ==
  CASE col = "appointment_time" -> x.appointment_start
    [] col = "intent" -> x.intent_category
    [] col = "lead_type" ->
         IF x.intent_category \in LeadTypes THEN x.intent_category ELSE NULL
    [] OTHER -> x[col]

\* updateData that takes every truthy extracted value, null on the row or not.
BuildUpdateDataOverwriting(call, x, t) ==
  LET cols == { col \in EnrichedColumns : ~Falsy(ExtractedFor(x, col)) }
  IN [col \in cols \cup {"updated_at"} |->
        IF col = "updated_at" THEN t ELSE ExtractedFor(x, col)]

\* updateData: updated_at, and every column that is null on the row read at
\* selection time and has a truthy extracted value.
BuildUpdateData(call, x, t) ==
  LET cols == { col \in EnrichedColumns :
                  call[col] = NULL /\ ~Falsy(ExtractedFor(x, col)) }
  IN [col \in cols \cup {"updated_at"} |->
        IF col = "updated_at" THEN t ELSE ExtractedFor(x, col)]

\* One element of a batch of processCallsWithGPT.  The extraction call is made
\* only for a transcript longer than 50 characters; it never throws, so success
\* is true on both branches.  Reading a property of a null extraction result
\* throws outside the try block (threw); outcome is what happened to the
\* request, "skipped" when none was made.
ProcessOne(call, reply, t) ==
  LET called == call.transcript # NULL /\ TextLength(call.transcript) > minTranscriptLength
      answer == extractContactInfoAndSummaries(reply)
      extracted == IF called THEN answer.value ELSE ExtractionEmpty
  IN [call_id |-> call.call_id,
      updateData |-> BuildUpdateData(call, extracted, t),
      success |-> TRUE,
      called |-> called,
      outcome |-> IF called THEN reply.outcome ELSE "skipped",
      threw |-> called /\ answer.isNull,
      extracted |-> extracted]

\* The update without its call_id filter: every row takes the values.
UpdateRowUnfiltered(store, id, values) ==
  [c \in DOMAIN store |-> values @@ store[c]]

\* .update(values).eq('call_id', id)
UpdateRow(store, id, values) ==
  IF id \in DOMAIN store THEN [store EXCEPT ![id] = values @@ @] ELSE store

SetToSeq(S) ==
  [i \in 1..Cardinality(S) |->
     CHOOSE c \in S : Cardinality({d \in S : d < c}) = i - 1]

\* The rows the query would match without its gpt_status filter.
GptCandidatesAnyStatus ==
  { c \in DOMAIN call_logs :
      /\ call_logs[c].call_status = "ended"
      /\ call_logs[c].transcript # NULL }

\* getCallsForGPTProcessing: the rows the filtered query matches.
GptCandidates ==
  { c \in DOMAIN call_logs :
      /\ call_logs[c].gpt_status = 0
      /\ call_logs[c].call_status = "ended"
      /\ call_logs[c].transcript # NULL }

GetCalls(e) ==
  /\ epc[e] = "idle"
  /\ eruns[e] < MaxEnrichRuns
  /\ eruns' = [eruns EXCEPT ![e] = @ + 1]
  /\ now' = now + 1
  /\ \E o \in Outcomes :
       IF o = "ok"
       THEN \E sel \in { S \in SUBSET GptCandidates :
                           Cardinality(S) = Min(gptSelectLimit,
                                                Cardinality(GptCandidates)) } :
              /\ ecalls' = [ecalls EXCEPT ![e] =
                              [i \in 1..Cardinality(sel) |->
                                 call_logs[SetToSeq(sel)[i]]]]
              /\ epc' = [epc EXCEPT ![e] = IF sel = {} THEN "done" ELSE "mark"]
       ELSE /\ ecalls' = [ecalls EXCEPT ![e] = <<>>]
            /\ epc' = [epc EXCEPT ![e] = "done"]
  /\ UNCHANGED <<syncVars, call_logs, user_profiles, envVars, ingVars, eresults, ei,
                 ecounts, estatus, ewrites>>

\* The value markCallsAsProcessing returns for an outcome of its write, were it
\* to report success in every case.
markCallsAsProcessingAlwaysTrue(o) == TRUE

\* The value markCallsAsProcessing returns: false when the write returned an
\* error or threw.
markCallsAsProcessing(o) == o = "ok"

\* markCallsAsProcessing as called by processGPTExtraction: one batched write;
\* when it returns false the cycle is aborted.
MarkProcessing(e) ==
  /\ epc[e] = "mark"
  /\ \E o \in Outcomes :
       /\ call_logs' =
            IF o = "ok"
            THEN [c \in DOMAIN call_logs |->
                    IF \E i \in DOMAIN ecalls[e] : ecalls[e][i].call_id = c
                    THEN [gpt_status |-> 1, updated_at |-> now] @@ call_logs[c]
                    ELSE call_logs[c]]
            ELSE call_logs
       /\ epc' = [epc EXCEPT ![e] =
                    IF markCallsAsProcessing(o) THEN "extract" ELSE "done"]
       /\ ewrites' = [ewrites EXCEPT ![e] =
                        @ \o << [op |-> "reserve", value |-> 1, applied |-> o = "ok",
                                 call_ids |-> { ecalls[e][i].call_id :
                                                  i \in DOMAIN ecalls[e] }] >>]
  /\ ei' = [ei EXCEPT ![e] = 0]
  /\ eresults' = [eresults EXCEPT ![e] = <<>>]
  /\ UNCHANGED <<syncVars, user_profiles, envVars, now, ingVars, eruns, ecalls, ecounts,
                 estatus>>

\* One batch of processCallsWithGPT: the extraction calls of up to 5 records,
\* joined by Promise.all.  When one element of the batch throws, Promise.all
\* rejects, processGPTExtraction catches it and the process exits with the
\* results discarded.
ExtractBatch(e) ==
  /\ epc[e] = "extract"
  /\ LET batch == SubSeq(ecalls[e], ei[e] + 1,
                         Min(ei[e] + gptBatchSize, Len(ecalls[e])))
     IN \E replies \in [1..Len(batch) -> ExtractionReplies] :
          LET batchResults == [k \in 1..Len(batch) |->
                                 ProcessOne(batch[k], replies[k], now)]
          IN IF \E k \in 1..Len(batch) : batchResults[k].threw
             THEN /\ eresults' = [eresults EXCEPT ![e] = <<>>]
                  /\ epc' = [epc EXCEPT ![e] = "done"]
                  /\ ei' = [ei EXCEPT ![e] = 0]
             ELSE /\ eresults' = [eresults EXCEPT ![e] = @ \o batchResults]
                  /\ IF ei[e] + gptBatchSize >= Len(ecalls[e])
                     THEN /\ epc' = [epc EXCEPT ![e] = "fields"]
                          /\ ei' = [ei EXCEPT ![e] = 1]
                     ELSE /\ ei' = [ei EXCEPT ![e] = @ + gptBatchSize]
                          /\ UNCHANGED epc
  /\ ecounts' = [ecounts EXCEPT ![e] = ZeroResult]
  /\ UNCHANGED <<syncVars, call_logs, user_profiles, envVars, now, ingVars, eruns, ecalls,
                 estatus, ewrites>>

\* updateCallsInDatabase, first half of an iteration: the field update.
\* estatus is the flag the following updateGPTStatus is called with.
WriteFields(e) ==
  /\ epc[e] = "fields"
  /\ LET r == eresults[e][ei[e]] IN
     IF Cardinality(DOMAIN r.updateData) > 1
     THEN \E o \in Outcomes :
            /\ call_logs' = IF o = "ok"
                            THEN UpdateRow(call_logs, r.call_id, r.updateData)
                            ELSE call_logs
            /\ ecounts' = [ecounts EXCEPT ![e] =
                             IF o = "ok" THEN [@ EXCEPT !.success = @ + 1]
                             ELSE [@ EXCEPT !.failed = @ + 1]]
            /\ estatus' = [estatus EXCEPT ![e] =
                             IF o = "throw" THEN FALSE ELSE r.success]
            /\ ewrites' = [ewrites EXCEPT ![e] =
                             @ \o << [op |-> "fields", call_id |-> r.call_id,
                                      value |-> 0, applied |-> o = "ok"] >>]
     ELSE /\ ecounts' = [ecounts EXCEPT ![e] = [@ EXCEPT !.success = @ + 1]]
          /\ estatus' = [estatus EXCEPT ![e] = r.success]
          /\ UNCHANGED <<call_logs, ewrites>>
  /\ epc' = [epc EXCEPT ![e] = "status"]
  /\ UNCHANGED <<syncVars, user_profiles, envVars, now, ingVars, eruns, ecalls, eresults, ei>>

\* updateGPTStatus: 2 on success, -1 otherwise; a failed write is only logged.
GptStatusFor(success) == IF success THEN 2 ELSE -1

\* The writes updateGPTStatus would issue were it to write only on success.
updateGPTStatusOnSuccessOnly(callId, success) ==
  IF success
  THEN << [op |-> "status", call_id |-> callId, value |-> GptStatusFor(success)] >>
  ELSE <<>>

\* The writes updateGPTStatus issues: one update of the record's gpt_status.
updateGPTStatus(callId, success) ==
  << [op |-> "status", call_id |-> callId, value |-> GptStatusFor(success)] >>

\* updateCallsInDatabase, second half of an iteration: the status update, on
\* the normal path or in the catch block.
WriteStatus(e) ==
  /\ epc[e] = "status"
  /\ \E o \in Outcomes :
       LET issued == updateGPTStatus(eresults[e][ei[e]].call_id, estatus[e]) IN
       /\ call_logs' =
            IF o = "ok" /\ issued # <<>>
            THEN UpdateRow(call_logs, issued[1].call_id,
                           [gpt_status |-> issued[1].value, updated_at |-> now])
            ELSE call_logs
       /\ ewrites' = [ewrites EXCEPT ![e] =
                        @ \o [k \in 1..Len(issued) |->
                                [applied |-> o = "ok"] @@ issued[k]]]
  /\ IF ei[e] + 1 > Len(eresults[e])
     THEN epc' = [epc EXCEPT ![e] = "done"] /\ UNCHANGED ei
     ELSE epc' = [epc EXCEPT ![e] = "fields"] /\ ei' = [ei EXCEPT ![e] = @ + 1]
  /\ UNCHANGED <<syncVars, user_profiles, envVars, now, ingVars, eruns, ecalls, eresults,
                 ecounts, estatus>>

\* The script exits.
EnrichExit(e) ==
  /\ epc[e] = "done"
  /\ epc' = [epc EXCEPT ![e] = "idle"]
  /\ ecalls' = [ecalls EXCEPT ![e] = <<>>]
  /\ eresults' = [eresults EXCEPT ![e] = <<>>]
  /\ ei' = [ei EXCEPT ![e] = 0]
  /\ ecounts' = [ecounts EXCEPT ![e] = ZeroResult]
  /\ estatus' = [estatus EXCEPT ![e] = TRUE]
  /\ ewrites' = [ewrites EXCEPT ![e] = <<>>]
  /\ UNCHANGED <<syncVars, call_logs, user_profiles, envVars, now, ingVars, eruns>>

\* ============================================================= booking sync
pollLimit == 10
defaultCompanyId == 3

\* ------------------------------------------------- validation of a lead
\* The characters of the email values of the model; any other text counts as
\* one character that is neither whitespace nor "@".
Chars(s) ==
  CASE s = "ann@example.com" ->
         <<"a", "n", "n", "@", "e", "x", "a", "m", "p", "l", "e", ".", "c", "o", "m">>
    [] s = "ann @example.com" ->
         <<"a", "n", "n", " ", "@", "e", "x", "a", "m", "p", "l", "e", ".", "c", "o", "m">>
    [] s = "ann.lee@work.example" ->
         <<"a", "n", "n", ".", "l", "e", "e", "@", "w", "o", "r", "k", ".",
           "e", "x", "a", "m", "p", "l", "e">>
    [] s = "ann.example.com" ->
         <<"a", "n", "n", ".", "e", "x", "a", "m", "p", "l", "e", ".", "c", "o", "m">>
    [] s = "ann@example" ->
         <<"a", "n", "n", "@", "e", "x", "a", "m", "p", "l", "e">>
    [] s = "Not mentioned" ->
         <<"N", "o", "t", " ", "m", "e", "n", "t", "i", "o", "n", "e", "d">>
    [] s = "null" -> <<"n", "u", "l", "l">>
    [] s = " " -> <<" ">>
    [] s = "" -> <<>>
    [] OTHER -> <<s>>

RECURSIVE Implode(_)
Implode(cs) == IF cs = <<>> THEN "" ELSE Head(cs) \o Implode(Tail(cs))

IsWhitespace(ch) == ch = " "

\* s.trim() === ''
IsBlank(s) == \A i \in DOMAIN Chars(s) : IsWhitespace(Chars(s)[i])

\* /^[^\s@]+@[^\s@]+\.[^\s@]+$/
EmailPattern(cs) ==
  \E p \in DOMAIN cs : \E q \in DOMAIN cs :
    /\ cs[p] = "@"
    /\ \A i \in DOMAIN cs : (cs[i] = "@" => i = p) /\ ~IsWhitespace(cs[i])
    /\ 1 < p
    /\ p + 1 < q
    /\ cs[q] = "."
    /\ q < Len(cs)

cleanEmail(email) ==
  IF Falsy(email) THEN NULL
  ELSE LET cleaned == SelectSeq(Chars(email), LAMBDA ch : ~IsWhitespace(ch))
       IN IF EmailPattern(cleaned) THEN Implode(cleaned) ELSE NULL

\* new Date(..) of the date and clock strings of the model, in minutes since
\* 2025-06-01T00:00, the instant at which the clock  now  reads 0.  A string
\* that does not parse gives an invalid date, for which every comparison is
\* false.
DayNumber(d) ==
  CASE d = "2025-06-01" -> 0
    [] d = "2025-06-02" -> 1
    [] d = "2024-03-10" -> -448
    [] d = "2024-03-09" -> -449
    [] d = "2025-12-01" -> 183

ClockMinutes(c) ==
  CASE c = "09:00" -> 540
    [] c = "09:30" -> 570
    [] c = "10:30" -> 630
    [] c = "14:30" -> 870
    [] c = "16:00:00" -> 960
    [] c = "23:30" -> 1410

ParsableClocks == {"09:00", "09:30", "10:30", "14:30", "16:00:00", "23:30"}
InvalidDate == [valid |-> FALSE, at |-> 0]

DateOf(d, c) ==
  IF d \in ParsableDates /\ c \in ParsableClocks
  THEN [valid |-> TRUE, at |-> DayNumber(d) * 1440 + ClockMinutes(c)]
  ELSE InvalidDate

DateOnly(d) ==
  IF d \in ParsableDates THEN [valid |-> TRUE, at |-> DayNumber(d) * 1440]
  ELSE InvalidDate

DateLeq(a, b) == a.valid /\ b.valid /\ a.at <= b.at

validateLeadData(lead, t) ==
  LET today == [valid |-> TRUE, at |-> t]
      start == DateOf(lead.appointment_date, lead.appointment_start)
      end == DateOf(lead.appointment_date, lead.appointment_end)
      emailErrors ==
        IF \/ Falsy(lead.client_email)
           \/ lead.client_email = "null"
           \/ lead.client_email = "Not mentioned"
           \/ IsBlank(lead.client_email)
           \/ Falsy(cleanEmail(lead.client_email))
        THEN <<"Missing or invalid email address">> ELSE <<>>
      phoneErrors ==
        IF Falsy(lead.from_number) \/ lead.from_number = "null" \/ IsBlank(lead.from_number)
        THEN <<"Missing phone number">> ELSE <<>>
      addressErrors ==
        IF \/ Falsy(lead.client_address)
           \/ lead.client_address = "null"
           \/ lead.client_address = "Not mentioned"
           \/ IsBlank(lead.client_address)
        THEN <<"Missing address">> ELSE <<>>
      timeErrors ==
        IF /\ ~Falsy(lead.appointment_start)
           /\ ~Falsy(lead.appointment_end)
           /\ ~Falsy(lead.appointment_date)
        THEN (IF DateLeq(start, today)
              THEN <<"Appointment start time must be in the future">> ELSE <<>>)
             \o (IF DateLeq(end, start)
                 THEN <<"Appointment end time must be after start time">> ELSE <<>>)
        ELSE IF ~Falsy(lead.appointment_date) /\ lead.appointment_date # "null"
        THEN (IF DateLeq(DateOnly(lead.appointment_date), today)
              THEN <<"Appointment date must be in the future">> ELSE <<>>)
        ELSE <<>>
      errors == emailErrors \o phoneErrors \o addressErrors \o timeErrors
  IN [isValid |-> Len(errors) = 0, errors |-> errors]

\* ----------------------------------------------- transformLeadToZTBooking
\* The region names the runtime's time-zone data knows, among those of the
\* model, and the offset from UTC in minutes each has at the instant at:
\* Chicago is on daylight time (UTC-5) from 2024-03-10T08:00Z to
\* 2024-11-03T07:00Z and from 2025-03-09T08:00Z to 2025-11-02T07:00Z, on
\* standard time (UTC-6) otherwise; Kolkata is UTC+5:30 throughout.
KnownZones == {"America/Chicago", "Asia/Kolkata"}

ZoneOffsetAt(zone, at) ==
  CASE zone = "Asia/Kolkata" -> 330
    [] zone = "America/Chicago" ->
         IF \/ (at >= -448 * 1440 + 480 /\ at < -210 * 1440 + 420)
            \/ (at >= -84 * 1440 + 480 /\ at < 154 * 1440 + 420)
         THEN -300 ELSE -360

\* getTimezoneOffsetMinutes: the zone's offset at the moment of the call (the
\* date it renders is  new Date()), 0 for no name and for a name that
\* toLocaleString rejects.
getTimezoneOffsetMinutes(timezoneRegionName, t) ==
  IF Falsy(timezoneRegionName) THEN 0
  ELSE IF timezoneRegionName \notin KnownZones THEN 0
  ELSE ZoneOffsetAt(timezoneRegionName, t)

\* Date.prototype.toISOString for the instants of the model.
TwoDigits(n) == IF n < 10 THEN "0" \o ToString(n) ELSE ToString(n)

DateString(day) ==
  CASE day = -450 -> "2024-03-08" [] day = -449 -> "2024-03-09"
    [] day = -448 -> "2024-03-10" [] day = -447 -> "2024-03-11"
    [] day = -1 -> "2025-05-31" [] day = 0 -> "2025-06-01"
    [] day = 1 -> "2025-06-02" [] day = 2 -> "2025-06-03"
    [] day = 182 -> "2025-11-30" [] day = 183 -> "2025-12-01"
    [] day = 184 -> "2025-12-02" [] day = 199 -> "2025-12-17"
    [] day = 200 -> "2025-12-18" [] day = 201 -> "2025-12-19"

toISOString(at) ==
  DateString(at \div 1440) \o "T" \o TwoDigits((at % 1440) \div 60) \o ":"
    \o TwoDigits(at % 60) \o ":00.000Z"

\* The time zone of the host, which a date-time string without a zone
\* designator is read in.
hostOffsetMinutes == 0
defaultStartMinutes == 390

\* transformLeadToZTBooking, the parts of the payload the model follows: the
\* booking times, name, email, company and description.  toISOString throws
\* on an invalid date, and an email that is not valid throws after that.
transformLeadToZTBooking(lead, ztCompanyId, timezone, t) ==
  LET offset == IF ~Falsy(timezone) THEN getTimezoneOffsetMinutes(timezone, t) ELSE 0
      displayDate ==
        IF ~Falsy(lead.appointment_start) /\ ~Falsy(lead.appointment_date)
        THEN DateOf(lead.appointment_date, lead.appointment_start)
        ELSE IF ~Falsy(lead.appointment_date) /\ lead.appointment_date # "null"
        THEN [DateOnly(lead.appointment_date) EXCEPT !.at = @ + defaultStartMinutes]
        ELSE [valid |-> TRUE,
              at |-> (t \div 1440) * 1440 + defaultStartMinutes - hostOffsetMinutes]
      utcTime == displayDate.at - offset
      validEmail == cleanEmail(lead.client_email)
  IN IF ~displayDate.valid
     THEN [threw |-> TRUE, message |-> "Invalid time value"]
     ELSE IF Falsy(validEmail)
     THEN [threw |-> TRUE, message |-> "Email is required for ZT booking"]
     ELSE [threw |-> FALSE, message |-> NULL,
           startBookingTime |-> toISOString(utcTime),
           endBookingTime |-> toISOString(utcTime + 60),
           bookDate |-> toISOString(utcTime),
           name |-> lead.client_name, email |-> validEmail,
           companyId |-> ztCompanyId, description |-> lead.job_description,
           source |-> "Web"]

\* errors.join(', ')
RECURSIVE Join(_)
Join(errors) ==
  IF Len(errors) = 0 THEN ""
  ELSE IF Len(errors) = 1 THEN errors[1]
  ELSE errors[1] \o ", " \o Join(Tail(errors))

\* ----------------------------------------------------------- runManualQueue
Engines == {1, 2}

StoreThrown == "fetch failed"
StoreError == "permission denied"
ProviderErrors == {"Slot not available", "Unknown error"}

NoLead == [call_id |-> 0]
NoToken == [token |-> NULL, company_id |-> 0, timezone |-> NULL]
NoValidation == [isValid |-> TRUE, errors |-> <<>>]
NoWrite == [status |-> NULL, booking |-> NULL, msg |-> NULL]

\* The state of one process between two of its requests.  logged tells whether
\* the write of the last logSyncAttempt took effect; validated, booked and
\* invalid record what the run has done so far.
SyncIdle(runs) ==
  [pc |-> "idle", runs |-> runs, rows |-> <<>>, i |-> 1, lead |-> NoLead,
   token |-> NoToken, validated |-> FALSE, validation |-> NoValidation,
   log |-> NoWrite, existing |-> FALSE, logged |-> FALSE, after |-> "queue",
   queue |-> NoWrite,
   handler |-> FALSE, fatal |-> FALSE, booked |-> {}, invalid |-> {}]

CallId(s) == s.rows[s.i]

\* A request with outcome o is possible while failures remain to be injected.
Inject(o) ==
  /\ o # "ok" => faults < MaxFaults
  /\ faults' = IF o = "ok" THEN faults ELSE faults + 1

\* An exception raised while the item is processed: inside the try block it is
\* caught, and the handler writes the failed audit entry and the failed queue
\* status; raised by the handler's own writes it leaves runManualQueue.
Caught(s, message) ==
  IF s.handler
  THEN [s EXCEPT !.pc = "done", !.fatal = TRUE]
  ELSE [s EXCEPT !.pc = "logread", !.handler = TRUE,
                 !.log = [status |-> "failed", booking |-> NULL, msg |-> message],
                 !.after = "queue",
                 !.queue = [status |-> "failed", booking |-> NULL, msg |-> message]]

\* .eq('status','pending').order('created_at', { ascending: true }): the
\* pending entries, oldest first (entries of one created_at by call_id).
PendingOldestFirst ==
  LET pending == { c \in DOMAIN zt_manual_sync : zt_manual_sync[c].status = "pending" }
      before(d, c) ==
        \/ zt_manual_sync[d].created_at < zt_manual_sync[c].created_at
        \/ /\ zt_manual_sync[d].created_at = zt_manual_sync[c].created_at
           /\ d < c
  IN [i \in 1..Cardinality(pending) |->
        CHOOSE c \in pending : Cardinality({d \in pending : before(d, c)}) = i - 1]

\* The poll without .limit(10).
PendingRowsNoLimit == PendingOldestFirst

\* The rows of the poll: .limit(10).
PendingRows ==
  SubSeq(PendingOldestFirst, 1, Min(pollLimit, Len(PendingOldestFirst)))

PollQueue(g) ==
  /\ sync[g].pc = "idle"
  /\ sync[g].runs < MaxSyncRuns
  /\ now' = now + 1
  /\ \E o \in Outcomes :
       /\ Inject(o)
       /\ sync' = [sync EXCEPT ![g] =
                  IF o = "ok"
                  THEN [SyncIdle(@.runs + 1) EXCEPT
                          !.rows = PendingRows,
                          !.pc = IF Len(PendingRows) = 0 THEN "done" ELSE "lead"]
                  ELSE [SyncIdle(@.runs + 1) EXCEPT !.pc = "done", !.fatal = TRUE]]
  /\ UNCHANGED <<call_logs, user_profiles, envVars, ingVars, enrVars,
                 zt_manual_sync, zt_sync_logs, zentrades_tokens, zt_bookings>>

\* The query for the call record without .eq('call_status', 'ended').
LeadFoundAnyStatus(c) == c \in DOMAIN call_logs

\* .eq('call_id', callId).eq('call_status', 'ended').single() matches a row.
LeadFound(c) == c \in DOMAIN call_logs /\ call_logs[c].call_status = "ended"

LoadLead(g) ==
  /\ sync[g].pc = "lead"
  /\ LET s == sync[g]
         c == CallId(s)
         found == LeadFound(c)
     IN \E o \in Outcomes :
          /\ Inject(o)
          /\ sync' = [sync EXCEPT ![g] =
                     IF o = "throw" THEN Caught(s, StoreThrown)
                     ELSE IF o = "error" \/ ~found
                     THEN Caught(s, "Lead not found: " \o ToString(c))
                     ELSE [s EXCEPT !.lead = call_logs[c], !.pc = "token"]]
  /\ UNCHANGED <<call_logs, user_profiles, envVars, now, ingVars, enrVars,
                 zt_manual_sync, zt_sync_logs, zentrades_tokens, zt_bookings>>

\* getZTTokenForAgent up to the login request: the credentials, or the message
\* of the exception raised.
ProfilesOf(agentId) ==
  SelectSeq(user_profiles, LAMBDA p : p.agent_id = agentId /\ ~Falsy(p.user_id))

TokenRowsOf(agentId) ==
  SelectSeq(zentrades_tokens,
            LAMBDA r : \E i \in DOMAIN ProfilesOf(agentId) :
                         ProfilesOf(agentId)[i].user_id = r.user_id)

MatchingToken(tokenRows) ==
  LET complete == SelectSeq(tokenRows,
                            LAMBDA r : ~Falsy(r.username) /\ ~Falsy(r.password))
  IN IF Len(complete) > 0 THEN complete[1] ELSE tokenRows[1]

\* The message of the exception getZTTokenForAgent raises before any request
\* to the booking platform, or NULL.
CredentialError(agentId, profilesOutcome, tokensOutcome) ==
  IF Falsy(agentId) THEN "getZTTokenForAgent: agent_id is required"
  ELSE IF profilesOutcome = "throw" THEN StoreThrown
  ELSE IF profilesOutcome = "error" THEN "user_profiles lookup failed: " \o StoreError
  ELSE IF Len(ProfilesOf(agentId)) = 0
  THEN "No user_ids mapped for agent_id=" \o agentId
  ELSE IF tokensOutcome = "throw" THEN StoreThrown
  ELSE IF tokensOutcome = "error" THEN "zentrades_tokens lookup failed: " \o StoreError
  ELSE IF Len(TokenRowsOf(agentId)) = 0
  THEN "No zentrades_tokens row for agent_id=" \o agentId
  ELSE IF Falsy(MatchingToken(TokenRowsOf(agentId)).user_id)
  THEN "Invalid zentrades_tokens entry for agent_id=" \o agentId
  ELSE IF \/ Falsy(MatchingToken(TokenRowsOf(agentId)).username)
          \/ Falsy(MatchingToken(TokenRowsOf(agentId)).password)
  THEN "requestZTToken: incomplete credentials"
  ELSE NULL

\* requestZTToken: the login request and the company request.
LoginOutcomes == Outcomes \cup {"no token"}

LoginError(loginOutcome) ==
  IF loginOutcome = "throw" THEN StoreThrown
  ELSE IF loginOutcome = "error" THEN "Login failed: 401 - Unauthorized"
  ELSE IF loginOutcome = "no token" THEN "No access-token"
  ELSE NULL

\* The requests of getZTTokenForAgent and the ways one of them fails.  A
\* failed company request only loses the timezone.
TokenFaults ==
  { [rq |-> r, o |-> o] : r \in {"profiles", "tokens"}, o \in {"error", "throw"} }
  \cup { [rq |-> "login", o |-> o] : o \in LoginOutcomes \ {"ok"} }
  \cup { [rq |-> "company", o |-> "error"] }
NoFault == [rq |-> "none", o |-> "ok"]
CompanyTimezone == "America/Chicago"

\* The test that lets an item go on to the booking request.
PassesGateAlways(validation) == TRUE

PassesGate(validation) == validation.isValid

\* The message of the audit entry written on a validation failure.
ValidationAuditMessageBare(errors) == Join(errors)

ValidationAuditMessage(errors) == "Validation failed: " \o Join(errors)

\* getZTTokenForAgent and, with no request in between, validateLeadData.
ResolveToken(g) ==
  /\ sync[g].pc = "token"
  /\ LET s == sync[g]
         agentId == s.lead.agent_id
         validation == validateLeadData(s.lead, now)
     IN \E f \in TokenFaults \cup {NoFault} :
          LET po == IF f.rq = "profiles" THEN f.o ELSE "ok"
              to == IF f.rq = "tokens" THEN f.o ELSE "ok"
              lo == IF f.rq = "login" THEN f.o ELSE "ok"
              tz == IF f.rq = "company" THEN NULL ELSE CompanyTimezone
              credErr == CredentialError(agentId, po, to)
              err == IF credErr # NULL THEN credErr ELSE LoginError(lo)
          IN /\ Inject(f.o)
             /\ sync' = [sync EXCEPT ![g] =
                  IF err # NULL THEN Caught(s, err)
                  ELSE LET v == [s EXCEPT
                                   !.token = [token |-> "access-token",
                                              company_id |-> defaultCompanyId,
                                              timezone |-> tz],
                                   !.validated = TRUE, !.validation = validation,
                                   !.invalid = IF validation.isValid THEN @
                                               ELSE @ \cup {CallId(s)}]
                       IN IF ~PassesGate(validation)
                          THEN [v EXCEPT
                                  !.log = [status |-> "failed", booking |-> NULL,
                                           msg |-> ValidationAuditMessage(validation.errors)],
                                  !.after = "queue",
                                  !.queue = [status |-> "failed", booking |-> NULL,
                                             msg |-> Join(validation.errors)],
                                  !.pc = "logread"]
                          ELSE [v EXCEPT
                                  !.log = [status |-> "pending", booking |-> NULL,
                                           msg |-> NULL],
                                  !.after = "book",
                                  !.pc = "logread"]]
  /\ UNCHANGED <<call_logs, user_profiles, envVars, now, ingVars, enrVars,
                 zt_manual_sync, zt_sync_logs, zentrades_tokens, zt_bookings>>

\* logSyncAttempt, the existence read (maybeSingle): a row is found when the
\* read succeeds and exactly one row matches; an error it returns is ignored.
AuditRowsOf(c) == SelectSeq(zt_sync_logs, LAMBDA r : r.call_log_id = c)

LogRead(g) ==
  /\ sync[g].pc = "logread"
  /\ LET s == sync[g] IN
     \E o \in Outcomes :
       /\ Inject(o)
       /\ sync' = [sync EXCEPT ![g] =
                  IF o = "throw" THEN Caught(s, StoreThrown)
                  ELSE [s EXCEPT !.pc = "logwrite", !.logged = FALSE,
                                 !.existing = (o = "ok" /\ Len(AuditRowsOf(CallId(s))) = 1)]]
  /\ UNCHANGED <<call_logs, user_profiles, envVars, now, ingVars, enrVars,
                 zt_manual_sync, zt_sync_logs, zentrades_tokens, zt_bookings>>

\* logSyncAttempt, the update or the insert; an error it returns is ignored.
AuditRow(c, log) ==
  [call_log_id |-> c, zt_booking_id |-> log.booking, sync_status |-> log.status,
   error_message |-> IF log.status = "failed" THEN OrElse(log.msg, "Unknown error")
                     ELSE NULL]

LogWrite(g) ==
  /\ sync[g].pc = "logwrite"
  /\ LET s == sync[g]
         c == CallId(s)
     IN \E o \in Outcomes :
          /\ Inject(o)
          /\ zt_sync_logs' =
               IF o # "ok" THEN zt_sync_logs
               ELSE IF s.existing
               THEN [k \in DOMAIN zt_sync_logs |->
                       IF zt_sync_logs[k].call_log_id = c THEN AuditRow(c, s.log)
                       ELSE zt_sync_logs[k]]
               ELSE Append(zt_sync_logs, AuditRow(c, s.log))
          /\ sync' = [sync EXCEPT ![g] =
                        IF o = "throw" THEN Caught(s, StoreThrown)
                        ELSE [s EXCEPT !.pc = s.after, !.logged = (o = "ok")]]
  /\ UNCHANGED <<call_logs, user_profiles, envVars, now, ingVars, enrVars,
                 zt_manual_sync, zentrades_tokens, zt_bookings>>

\* createZTBooking: the payload is built, then the booking request is sent.
CreateBooking(g) ==
  /\ sync[g].pc = "book"
  /\ LET s == sync[g]
         c == CallId(s)
         payload == transformLeadToZTBooking(s.lead, s.token.company_id,
                                             s.token.timezone, now)
         id == "zb" \o ToString(Len(zt_bookings) + 1)
     IN IF payload.threw
        THEN /\ sync' = [sync EXCEPT ![g] = Caught(s, payload.message)]
             /\ UNCHANGED <<zt_bookings, faults>>
        ELSE \E o \in Outcomes, message \in ProviderErrors :
               /\ Inject(o)
               /\ zt_bookings' =
                    IF o = "ok"
                    THEN Append(zt_bookings,
                                [id |-> id, call_id |-> c, email |-> payload.email,
                                 companyId |-> payload.companyId,
                                 startBookingTime |-> payload.startBookingTime,
                                 endBookingTime |-> payload.endBookingTime,
                                 bookDate |-> payload.bookDate])
                    ELSE zt_bookings
               /\ sync' = [sync EXCEPT ![g] =
                    IF o = "throw"
                    THEN Caught([s EXCEPT !.booked = @ \cup {c}], StoreThrown)
                    ELSE IF o = "ok"
                    THEN [s EXCEPT !.booked = @ \cup {c}, !.pc = "logread",
                                   !.log = [status |-> "success", booking |-> id,
                                            msg |-> NULL],
                                   !.after = "queue",
                                   !.queue = [status |-> "success", booking |-> id,
                                              msg |-> NULL]]
                    ELSE [s EXCEPT !.booked = @ \cup {c}, !.pc = "logread",
                                   !.log = [status |-> "failed", booking |-> NULL,
                                            msg |-> message],
                                   !.after = "queue",
                                   !.queue = [status |-> "failed", booking |-> NULL,
                                              msg |-> message]]]
  /\ UNCHANGED <<call_logs, user_profiles, envVars, now, ingVars, enrVars,
                 zt_manual_sync, zt_sync_logs, zentrades_tokens>>

\* The loop moves to the next polled row, or ends.
NextItem(s) ==
  [SyncIdle(s.runs) EXCEPT
     !.rows = s.rows, !.i = s.i + 1, !.booked = s.booked, !.invalid = s.invalid,
     !.pc = IF s.i + 1 > Len(s.rows) THEN "done" ELSE "lead"]

\* The update of the queue entry: status and error_message, and the booking id
\* on success.
QueueRowPending(row, q) ==
  [row EXCEPT !.status = "pending", !.error_message = q.msg]

QueueRow(row, q) ==
  IF q.status = "success"
  THEN [row EXCEPT !.status = q.status, !.zt_booking_id = q.booking,
                   !.error_message = NULL]
  ELSE [row EXCEPT !.status = q.status, !.error_message = q.msg]

QueueUpdate(g) ==
  /\ sync[g].pc = "queue"
  /\ LET s == sync[g]
         c == CallId(s)
     IN \E o \in Outcomes :
          /\ Inject(o)
          /\ zt_manual_sync' =
               IF o = "ok" /\ c \in DOMAIN zt_manual_sync
               THEN [zt_manual_sync EXCEPT ![c] = QueueRow(@, s.queue)]
               ELSE zt_manual_sync
          /\ sync' = [sync EXCEPT ![g] =
                        IF o = "throw" THEN Caught(s, StoreThrown) ELSE NextItem(s)]
  /\ UNCHANGED <<call_logs, user_profiles, envVars, now, ingVars, enrVars,
                 zt_sync_logs, zentrades_tokens, zt_bookings>>

\* The script exits.
SyncExit(g) ==
  /\ sync[g].pc = "done"
  /\ sync' = [sync EXCEPT ![g] = SyncIdle(@.runs)]
  /\ UNCHANGED <<call_logs, user_profiles, envVars, now, ingVars, enrVars,
                 zt_manual_sync, zt_sync_logs, zentrades_tokens, zt_bookings, faults>>

\* A finished queue entry is put back to 'pending' from outside the engine.
Reenqueue ==
  /\ extChanges < MaxReenqueues
  /\ \E c \in DOMAIN zt_manual_sync :
       /\ zt_manual_sync[c].status \in {"success", "failed"}
       /\ zt_manual_sync' = [zt_manual_sync EXCEPT ![c].status = "pending"]
  /\ extChanges' = extChanges + 1
  /\ UNCHANGED <<call_logs, user_profiles, retell, now, ingVars, enrVars,
                 zt_sync_logs, zentrades_tokens, zt_bookings, sync, faults>>

\* ------------------------------------------------------------- environment
\* Between two runs the provider revises agent a1's newest call: a new
\* call_status, or a revised transcript.  The finished run no longer describes
\* the snapshot set, and its record is dropped.
RetellChange ==
  /\ ipc = "idle"
  /\ extChanges < MaxRetellChanges
  /\ \E i \in 1..Min(1, Len(retell["a1"])) :
       \/ \E st \in StatusUniverse \ {retell["a1"][i].call_status} :
            retell' = [retell EXCEPT !["a1"][i].call_status = st]
       \/ /\ retell["a1"][i].transcript = TranscriptLong
          /\ retell' = [retell EXCEPT !["a1"][i].transcript = TranscriptRevised]
  /\ extChanges' = extChanges + 1
  /\ hist' = <<>>
  /\ UNCHANGED <<enrVars, syncVars, storeVars, now, ipc, iruns, agentIds, ai, callsFromRetellAI,
                 existingCallsMap, callsToProcess, processedCalls, ui, upsertResult,
                 totalResults, runLog>>

\* An operator puts a record back into the enrichment queue (gpt_status 0), the
\* only way a record that was reserved once is selected again.
ResetGptStatus ==
  /\ \A e \in Runners : epc[e] = "idle"
  /\ extChanges < MaxRetellChanges
  /\ \E c \in DOMAIN call_logs :
       /\ call_logs[c].gpt_status # 0
       /\ call_logs' = [call_logs EXCEPT ![c].gpt_status = 0]
  /\ extChanges' = extChanges + 1
  /\ UNCHANGED <<syncVars, user_profiles, retell, now, ingVars, enrVars>>


\* ------------------------------------------------------------ specification
IngestProfiles ==
  << [user_id |-> "u1", agent_id |-> "a1"],
     [user_id |-> "u2", agent_id |-> "a2"],
     [user_id |-> "u3", agent_id |-> NULL] >>

InitIngestState ==
  /\ ipc = "idle"
  /\ iruns = 0
  /\ agentIds = <<>>
  /\ ai = 1
  /\ callsFromRetellAI = <<>>
  /\ existingCallsMap = << >>
  /\ callsToProcess = <<>>
  /\ processedCalls = <<>>
  /\ ui = 0
  /\ upsertResult = ZeroResult
  /\ totalResults = <<>>
  /\ runLog = NewRunLog
  /\ hist = <<>>

InitSyncState ==
  /\ zt_manual_sync = << >>
  /\ zt_sync_logs = <<>>
  /\ zentrades_tokens = <<>>
  /\ zt_bookings = <<>>
  /\ sync = [g \in Engines |-> SyncIdle(0)]
  /\ faults = 0

InitEnrichState ==
  /\ epc = [e \in Runners |-> "idle"]
  /\ eruns = [e \in Runners |-> 0]
  /\ ecalls = [e \in Runners |-> <<>>]
  /\ eresults = [e \in Runners |-> <<>>]
  /\ ei = [e \in Runners |-> 0]
  /\ ecounts = [e \in Runners |-> ZeroResult]
  /\ estatus = [e \in Runners |-> TRUE]
  /\ ewrites = [e \in Runners |-> <<>>]

Init ==
  /\ call_logs = << >>
  /\ user_profiles = IngestProfiles
  /\ \E l \in SmallListings \cup LargeListings :
     \E m \in SecondAgentListings(l) :
       retell = [a \in Agents |-> IF a = "a1" THEN l ELSE m]
  /\ now = 0
  /\ extChanges = 0
  /\ InitIngestState
  /\ InitEnrichState
  /\ InitSyncState

Next ==
  \/ StartRun
  \/ FetchCalls
  \/ BulkCheck
  \/ NothingToProcess
  \/ UpsertChunk
  \/ Summary
  \/ EndRun
  \/ RetellChange

Spec == Init /\ [][Next]_vars

\* Enrichment: the store as an earlier ingestion run left it.  Call 1 has a
\* transcript long enough for extraction and was stored either still ongoing
\* or already ended; call 2 has a short transcript.
EnrichListing(n, st) ==
  [i \in 1..n |->
     IF n + 1 - i = 1 THEN Snapshot(1, st, TranscriptLong)
     ELSE Snapshot(n + 1 - i, "ended", TranscriptShort)]

InitEnrichWith(n) ==
  /\ \E st \in {"ongoing", "ended"} :
       call_logs = UpsertRows(<< >>, processCalls(EnrichListing(n, st), "a1", 0))
  /\ user_profiles = IngestProfiles
  /\ retell = [a \in Agents |-> IF a = "a1" THEN EnrichListing(n, "ended") ELSE <<>>]
  /\ now = 0
  /\ extChanges = 0
  /\ InitIngestState
  /\ InitEnrichState
  /\ InitSyncState

InitEnrich == InitEnrichWith(1)
InitEnrichSeq == InitEnrichWith(2)

EnrichStep(e) ==
  \/ GetCalls(e)
  \/ MarkProcessing(e)
  \/ ExtractBatch(e)
  \/ WriteFields(e)
  \/ WriteStatus(e)
  \/ EnrichExit(e)

\* Ingestion runs and two enrichment processes, interleaved in any order.
NextEnrich ==
  \/ iruns < MaxRunsWithEnrich /\ StartRun
  \/ FetchCalls
  \/ BulkCheck
  \/ NothingToProcess
  \/ UpsertChunk
  \/ Summary
  \/ EndRun
  \/ \E e \in Runners : EnrichStep(e)

SpecEnrich == InitEnrich /\ [][NextEnrich]_vars

\* Enrichment cycles run one after the other, no ingestion in between.
Alone(e) == \A f \in Runners \ {e} : epc[f] = "idle"

NextEnrichSeq ==
  \/ \E e \in Runners : Alone(e) /\ GetCalls(e)
  \/ \E e \in Runners : Alone(e) /\ MarkProcessing(e)
  \/ \E e \in Runners : Alone(e) /\ ExtractBatch(e)
  \/ \E e \in Runners : Alone(e) /\ WriteFields(e)
  \/ \E e \in Runners : Alone(e) /\ WriteStatus(e)
  \/ \E e \in Runners : Alone(e) /\ EnrichExit(e)
  \/ ResetGptStatus

SpecEnrichSeq == InitEnrichSeq /\ [][NextEnrichSeq]_vars

\* Two enrichment processes over two records, interleaved in any order, with no
\* write from outside.
NextEnrichPair == \E e \in Runners : EnrichStep(e)

SpecEnrichPair == InitEnrichSeq /\ [][NextEnrichPair]_vars

\* One enrichment cycle over more records than one batch holds.  All calls
\* have ended; the first record of each batch has a transcript long enough for
\* extraction, the others a short one.
BatchListing ==
  [i \in 1..(5 + ExtraSelected) |->
     LET id == 5 + ExtraSelected + 1 - i
     IN Snapshot(id, "ended",
                 IF id % 5 = 1 THEN TranscriptLong ELSE TranscriptShort)]

InitBatch ==
  /\ call_logs = UpsertRows(<< >>, processCalls(BatchListing, "a1", 0))
  /\ user_profiles = IngestProfiles
  /\ retell = [a \in Agents |-> IF a = "a1" THEN BatchListing ELSE <<>>]
  /\ now = 0
  /\ extChanges = 0
  /\ InitIngestState
  /\ InitEnrichState
  /\ InitSyncState

NextBatch ==
  \/ GetCalls(1)
  \/ MarkProcessing(1)
  \/ ExtractBatch(1)
  \/ WriteFields(1)
  \/ WriteStatus(1)
  \/ EnrichExit(1)

SpecBatch == InitBatch /\ [][NextBatch]_vars

\* bulkUpsertCalls on its own: the upsert of n mapped rows of agent a1 into an
\* empty store, for row counts around the chunk size, followed by the rest of
\* the run.
UpsertSizes ==
  {1, upsertBatchSize - 1, upsertBatchSize, upsertBatchSize + 1,
   MaxChunks * upsertBatchSize, MaxChunks * upsertBatchSize + 1}

InitUpsert ==
  /\ call_logs = << >>
  /\ user_profiles = << [user_id |-> "u1", agent_id |-> "a1"] >>
  /\ now = 1
  /\ extChanges = 0
  /\ \E n \in UpsertSizes, st \in {"ongoing", "ended"} :
       /\ retell = [a \in Agents |-> IF a = "a1" THEN UniformListing(n, st) ELSE <<>>]
       /\ callsFromRetellAI = UniformListing(n, st)
       /\ callsToProcess = UniformListing(n, st)
       /\ processedCalls = MapBatches(UniformListing(n, st), 0, "a1", 1)
  /\ ipc = "upsert"
  /\ iruns = 1
  /\ agentIds = <<"a1">>
  /\ ai = 1
  /\ existingCallsMap = << >>
  /\ ui = 0
  /\ upsertResult = ZeroResult
  /\ totalResults = <<>>
  /\ runLog = NewRunLog
  /\ hist = <<>>
  /\ InitEnrichState
  /\ InitSyncState

NextUpsert ==
  \/ UpsertChunk
  \/ Summary
  \/ EndRun

SpecUpsert == InitUpsert /\ [][NextUpsert]_vars

\* ================================================================== claims
StoredTerminal(c) ==
  c \in DOMAIN call_logs /\ call_logs[c].call_status \in TerminalStatuses

\* C1 (as claimed): a call whose stored call_status is 'ended' or 'failed' is
\* never part of the rows an ingestion run is about to upsert, whatever the
\* existence lookup returned.
C1_TerminalNeverUpserted ==
  ipc = "upsert" =>
    \A i \in DOMAIN processedCalls : ~StoredTerminal(processedCalls[i].call_id)

\* C2: the reconciler's output is exactly the fetched snapshots whose call_id is
\* absent from the lookup or stored with a non-terminal status, in input order:
\* the k-th kept input position holds the k-th output element.
C2_Kept ==
  { i \in DOMAIN callsFromRetellAI :
      \/ callsFromRetellAI[i].call_id \notin DOMAIN existingCallsMap
      \/ existingCallsMap[callsFromRetellAI[i].call_id] \notin {"ended", "failed"} }

C2_ReconcilerRule ==
  ipc = "upsert" =>
    /\ Len(callsToProcess) = Cardinality(C2_Kept)
    /\ \A i \in C2_Kept :
         callsToProcess[Cardinality({j \in C2_Kept : j <= i})] = callsFromRetellAI[i]

\* C2 witness: a reconciliation that skipped a stored 'failed' call and kept a
\* stored non-terminal one.
C2_Witness ==
  /\ ipc = "upsert"
  /\ \E i \in DOMAIN callsFromRetellAI :
       /\ callsFromRetellAI[i].call_id \in DOMAIN existingCallsMap
       /\ existingCallsMap[callsFromRetellAI[i].call_id] = "failed"
  /\ \E i \in DOMAIN callsToProcess :
       /\ callsToProcess[i].call_id \in DOMAIN existingCallsMap
       /\ existingCallsMap[callsToProcess[i].call_id] = "ongoing"

\* A run has just finished that followed another run over the same snapshot
\* set, and neither had a failed agent enumeration, listing request or upsert,
\* nor a thrown store call.
SecondRunFinished ==
  /\ ipc = "done"
  /\ Len(hist) = 1
  /\ hist[1].clean /\ runLog.clean

SameCount ==
  Cardinality(DOMAIN call_logs) = Cardinality(DOMAIN hist[1].store)

TerminalUntouched ==
  \A c \in DOMAIN hist[1].store :
    hist[1].store[c].call_status \in TerminalStatuses =>
      call_logs[c] = hist[1].store[c]

LeadPhone == "+15551234567"

LeadRow(id, phone, st, x) ==
  LET snapshot == [Snapshot(id, st, TranscriptLong) EXCEPT !.from_number = phone]
      stored == MapCall(snapshot, "a1", 0) @@ [gpt_status |-> 2]
  IN BuildUpdateData(stored, x, 0) @@ stored

\* A complete lead; one without email, phone and address; one with a malformed
\* email; one whose appointment is past and ends before it starts; and a call
\* that has not ended.
LeadUniverse ==
  { LeadRow(1, LeadPhone, "ended", ExtractionA),
    LeadRow(1, NULL, "ended", [ExtractionA EXCEPT !.client_email = NULL,
                                                  !.client_address = NULL]),
    LeadRow(1, LeadPhone, "ended", [ExtractionA EXCEPT !.client_email = "ann@example"]),
    LeadRow(1, LeadPhone, "ended", [ExtractionA EXCEPT !.appointment_date = "2024-03-10",
                                                       !.appointment_end = "09:00"]),
    LeadRow(1, LeadPhone, "ongoing", ExtractionA) }

QueueEntry(created_at) ==
  [status |-> "pending", zt_booking_id |-> NULL, error_message |-> NULL,
   created_at |-> created_at]

InitSync ==
  /\ \E lead \in LeadUniverse :
       call_logs = (1 :> lead) @@ (2 :> LeadRow(2, LeadPhone, "ended", ExtractionA))
  /\ user_profiles = IngestProfiles
  /\ retell = [a \in Agents |-> <<>>]
  /\ now = 0
  /\ extChanges = 0
  /\ InitIngestState
  /\ InitEnrichState
  /\ zt_manual_sync = [c \in {1, 2} |-> QueueEntry(c)]
  /\ zt_sync_logs = <<>>
  /\ zentrades_tokens = << [user_id |-> "u1", username |-> "office", password |-> "secret"] >>
  /\ zt_bookings = <<>>
  /\ sync = [g \in Engines |-> SyncIdle(0)]
  /\ faults = 0

AloneSync(g) == \A h \in Engines \ {g} : sync[h].pc = "idle"
\* The processes are alike: the lower-numbered one runs first.
InTurn(g) == \A h \in Engines : h < g => sync[h].runs = MaxSyncRuns

\* Runs of runManualQueue one after the other, and re-enqueues at any moment.
NextSync ==
  \/ \E g \in Engines : AloneSync(g) /\ InTurn(g) /\ PollQueue(g)
  \/ \E g \in Engines : AloneSync(g) /\ LoadLead(g)
  \/ \E g \in Engines : AloneSync(g) /\ ResolveToken(g)
  \/ \E g \in Engines : AloneSync(g) /\ LogRead(g)
  \/ \E g \in Engines : AloneSync(g) /\ LogWrite(g)
  \/ \E g \in Engines : AloneSync(g) /\ CreateBooking(g)
  \/ \E g \in Engines : AloneSync(g) /\ QueueUpdate(g)
  \/ \E g \in Engines : AloneSync(g) /\ SyncExit(g)
  \/ Reenqueue

SpecSync == InitSync /\ [][NextSync]_vars

\* createZTBooking on its own: the engine has loaded the lead of call 1,
\* authenticated, validated the lead and written the pending audit entry.  The
\* lead's appointment date and start, the company's timezone and the moment
\* of the run vary; the clock reads 0 at 2025-06-01T00:00Z.
TransformDates == {"2025-06-01", "2025-12-01", NULL}
TransformStarts == {"09:00", "23:30", "9:30 AM", NULL}
TransformZones == {NULL, "America/Chicago", "Asia/Kolkata", "Mars/Olympus"}
TransformMoments == {0, 200 * 1440 + 600}

TransformLead(d, c) ==
  LeadRow(1, LeadPhone, "ended",
          [ExtractionA EXCEPT
             !.appointment_date = d, !.appointment_start = c,
             !.appointment_end = IF c \in {"09:00", "9:30 AM"} THEN "10:30" ELSE NULL])

PendingLog == [status |-> "pending", booking |-> NULL, msg |-> NULL]

InitTransform ==
  /\ \E d \in TransformDates, c \in TransformStarts, zone \in TransformZones,
        t \in TransformMoments :
       /\ validateLeadData(TransformLead(d, c), t).isValid
       /\ call_logs = (1 :> TransformLead(d, c))
       /\ now = t
       /\ sync = [g \in Engines |->
                   IF g = 1
                   THEN [SyncIdle(1) EXCEPT
                           !.pc = "book", !.rows = <<1>>, !.lead = TransformLead(d, c),
                           !.token = [token |-> "access-token",
                                      company_id |-> defaultCompanyId,
                                      timezone |-> zone],
                           !.validated = TRUE,
                           !.validation = validateLeadData(TransformLead(d, c), t),
                           !.log = PendingLog, !.logged = TRUE, !.after = "book"]
                   ELSE SyncIdle(MaxSyncRuns)]
  /\ user_profiles = IngestProfiles
  /\ retell = [a \in Agents |-> <<>>]
  /\ extChanges = 0
  /\ InitIngestState
  /\ InitEnrichState
  /\ zt_manual_sync = [c \in {1} |-> QueueEntry(c)]
  /\ zt_sync_logs = << AuditRow(1, PendingLog) >>
  /\ zentrades_tokens = << [user_id |-> "u1", username |-> "office", password |-> "secret"] >>
  /\ zt_bookings = <<>>
  /\ faults = 0

NextTransform ==
  \/ CreateBooking(1)
  \/ LogRead(1)
  \/ LogWrite(1)
  \/ QueueUpdate(1)
  \/ SyncExit(1)

SpecTransform == InitTransform /\ [][NextTransform]_vars

\* The poll on a queue longer than its limit.  The entries were queued in the
\* reverse order of their call ids; entry 2 is already done; the oldest and
\* the newest entry have a complete lead, call 3 has not ended, the other
\* calls have no record.
QueueSize == pollLimit + ExtraPending

InitPoll ==
  /\ call_logs = (1 :> LeadRow(1, LeadPhone, "ended", ExtractionA))
                 @@ (3 :> LeadRow(3, LeadPhone, "ongoing", ExtractionA))
                 @@ (QueueSize :> LeadRow(QueueSize, LeadPhone, "ended", ExtractionA))
  /\ user_profiles = IngestProfiles
  /\ retell = [a \in Agents |-> <<>>]
  /\ now = 0
  /\ extChanges = 0
  /\ InitIngestState
  /\ InitEnrichState
  /\ zt_manual_sync =
       [c \in 1..QueueSize |->
          IF c = 2
          THEN [QueueEntry(QueueSize + 1 - c) EXCEPT !.status = "success"]
          ELSE QueueEntry(QueueSize + 1 - c)]
  /\ zt_sync_logs = <<>>
  /\ zentrades_tokens = << [user_id |-> "u1", username |-> "office", password |-> "secret"] >>
  /\ zt_bookings = <<>>
  /\ sync = [g \in Engines |-> SyncIdle(0)]
  /\ faults = 0

\* Runs of runManualQueue one after the other.
NextPoll ==
  \/ \E g \in Engines : AloneSync(g) /\ InTurn(g) /\ PollQueue(g)
  \/ \E g \in Engines : AloneSync(g) /\ LoadLead(g)
  \/ \E g \in Engines : AloneSync(g) /\ ResolveToken(g)
  \/ \E g \in Engines : AloneSync(g) /\ LogRead(g)
  \/ \E g \in Engines : AloneSync(g) /\ LogWrite(g)
  \/ \E g \in Engines : AloneSync(g) /\ CreateBooking(g)
  \/ \E g \in Engines : AloneSync(g) /\ QueueUpdate(g)
  \/ \E g \in Engines : AloneSync(g) /\ SyncExit(g)

SpecPoll == InitPoll /\ [][NextPoll]_vars

\* ------------------------------------------------------------------ C4
ContactScheduleFields ==
  {"client_name", "client_address", "client_email", "appointment_date",
   "appointment_time", "appointment_start", "appointment_end"}

\* A step of one of the enrichment processes.
EnrichmentStep == epc' # epc

\* C4: under any interleaving of ingestion runs and enrichment runs, once a
\* contact/schedule field of a stored call record holds a non-null value, no
\* write issued by enrichment changes that value.
C4_FirstWriterWins ==
  [][ EnrichmentStep =>
        \A c \in DOMAIN call_logs : \A f \in ContactScheduleFields :
          call_logs[c][f] # NULL => call_logs'[c][f] = call_logs[c][f] ]_vars

\* ------------------------------------------------------------------ C5
\* The field update of process e for its current result was applied.
FieldWriteApplied(e) ==
  /\ epc[e] = "fields"
  /\ epc'[e] = "status"
  /\ ecounts'[e].success = ecounts[e].success + 1

\* C5: in enrichment cycles run one after the other, a cycle whose extraction
\* result for a record with client_email = null contains a non-null email sets
\* client_email to it when its field update is applied, and no later cycle,
\* whatever email its extraction returns, changes a non-null client_email.
C5_FirstEmailStays ==
  [][ /\ \A e \in Runners :
           LET r == eresults[e][ei[e]] IN
           ( /\ FieldWriteApplied(e)
             /\ r.call_id \in DOMAIN call_logs
             /\ call_logs[r.call_id].client_email = NULL
             /\ ~Falsy(r.extracted.client_email) )
           => call_logs'[r.call_id].client_email = r.extracted.client_email
      /\ \A c \in DOMAIN call_logs :
           call_logs[c].client_email # NULL
           => call_logs'[c].client_email = call_logs[c].client_email ]_vars

\* A later cycle has extracted a different non-null email for a record whose
\* client_email an earlier cycle set, and has gone through its field update.
C5_Witness ==
  \E e \in Runners :
    /\ epc[e] = "status"
    /\ LET r == eresults[e][ei[e]] IN
         /\ r.called
         /\ r.call_id \in DOMAIN call_logs
         /\ call_logs[r.call_id].client_email # NULL
         /\ ~Falsy(r.extracted.client_email)
         /\ r.extracted.client_email # call_logs[r.call_id].client_email

\* ------------------------------------------------------------------ C6
\* A step of one of the booking-sync processes.
EngineStep == \E g \in Engines : sync'[g].pc # sync[g].pc

HasAuditRow(c, st) ==
  \E k \in DOMAIN zt_sync_logs :
    zt_sync_logs[k].call_log_id = c /\ zt_sync_logs[k].sync_status = st

\* C6: whenever the engine sets the status of a queue entry to s in
\* {success, failed}, an audit row for the same call with sync_status = s
\* exists at that moment, on every path and for any outcome of the audit write.
C6_AuditBeforeStatus ==
  [][ \A g \in Engines :
        ( /\ sync[g].pc = "queue"
          /\ zt_manual_sync' # zt_manual_sync )
        => HasAuditRow(CallId(sync[g]), zt_manual_sync'[CallId(sync[g])].status) ]_vars

\* ------------------------------------------------------------------ C7
\* C7: the engine never writes 'pending' to a queue entry and writes no status
\* other than 'success' and 'failed'; an entry leaves {success, failed} for
\* 'pending' only by a re-enqueue from outside; the rows of a poll are pending
\* entries, and the entry of an item being attempted is pending.
C7_QueueOneWay ==
  [][ /\ EngineStep =>
           \A c \in DOMAIN zt_manual_sync :
             zt_manual_sync'[c] # zt_manual_sync[c]
             => zt_manual_sync'[c].status \in {"success", "failed"}
      /\ \A c \in DOMAIN zt_manual_sync :
           ( /\ zt_manual_sync[c].status \in {"success", "failed"}
             /\ zt_manual_sync'[c].status = "pending" )
           => ~EngineStep
      /\ \A g \in Engines :
           /\ ( sync[g].pc = "idle" /\ sync'[g].pc # "idle" )
              => \A k \in DOMAIN sync'[g].rows :
                   zt_manual_sync[sync'[g].rows[k]].status = "pending"
           /\ ( sync[g].pc \in {"lead", "token", "book"} /\ sync'[g].pc # sync[g].pc )
              => zt_manual_sync[CallId(sync[g])].status = "pending" ]_vars

\* A run polls an entry that was re-enqueued after it had succeeded.
C7_Witness ==
  \E g \in Engines :
    /\ sync[g].pc = "book"
    /\ \E k \in DOMAIN zt_bookings : zt_bookings[k].call_id = CallId(sync[g])
    /\ extChanges > 0

\* ------------------------------------------------------------------ C8
\* C8: no failure of one item, a failure of the writes of the exception
\* handler included, ends runManualQueue before the remaining polled items are
\* handled: when the run has ended, the loop has gone past the last polled row.
C8_BatchNeverAborted ==
  \A g \in Engines :
    sync[g].pc = "done" => sync[g].i = Len(sync[g].rows) + 1

\* ------------------------------------------------------------------ C9
\* C9: no booking-creation call is issued in a run for an item whose lead
\* failed validateLeadData in that run, and a lead with missing client_email
\* is invalid with the error 'Missing or invalid email address'.
C9_ValidationGate ==
  \A g \in Engines :
    /\ sync[g].booked \cap sync[g].invalid = {}
    /\ ( sync[g].validated /\ ~sync[g].validation.isValid ) => sync[g].pc # "book"
    /\ ( sync[g].validated /\ Falsy(sync[g].lead.client_email) )
       => /\ ~sync[g].validation.isValid
          /\ \E k \in DOMAIN sync[g].validation.errors :
               sync[g].validation.errors[k] = "Missing or invalid email address"

\* An item whose lead has no client_email has been validated and its queue
\* entry is about to be updated.
C9_Witness ==
  \E g \in Engines :
    /\ sync[g].pc = "queue"
    /\ sync[g].validated
    /\ ~sync[g].handler
    /\ Falsy(sync[g].lead.client_email)
    /\ CallId(sync[g]) \in sync[g].invalid

\* ------------------------------------------------------------------ C10
\* The queue update of an item that failed validation takes effect, after an
\* audit write that took effect.
ValidationFailureHandled(g) ==
  /\ sync[g].pc = "queue"
  /\ sync[g].validated
  /\ ~sync[g].validation.isValid
  /\ ~sync[g].handler
  /\ sync[g].logged
  /\ sync'[g].pc # "queue"
  /\ zt_manual_sync'[CallId(sync[g])].status = "failed"

SelectedIds(e) == { ecalls[e][i].call_id : i \in DOMAIN ecalls[e] }

\* The cycle's first write is the batched reservation of all selected records.
ReservationIssued(e) ==
  /\ ewrites[e] # <<>>
  /\ ewrites[e][1].op = "reserve"
  /\ ewrites[e][1].call_ids = SelectedIds(e)

Reserved(e) == ReservationIssued(e) /\ ewrites[e][1].applied

ReservationFailed(e) == ReservationIssued(e) /\ ~ewrites[e][1].applied

\* C11: in every cycle the batched write of gpt_status = 1 on all selected
\* records has taken effect before any extraction is made or any result
\* exists; a cycle whose reservation write failed ends with no extraction
\* result, no write other than the reservation and the selected records as
\* they were selected.
C11_ReservationFirst ==
  \A e \in Runners :
    /\ (epc[e] \in {"extract", "fields", "status"} \/ eresults[e] # <<>>)
         => Reserved(e)
    /\ (epc[e] = "done" /\ ReservationFailed(e))
         => /\ eresults[e] = <<>>
            /\ Len(ewrites[e]) = 1
            /\ \A i \in DOMAIN ecalls[e] :
                 call_logs[ecalls[e][i].call_id] = ecalls[e][i]

\* A cycle that selected two records and whose reservation write failed has
\* ended.
C11_Witness ==
  \E e \in Runners :
    /\ epc[e] = "done"
    /\ ReservationFailed(e)
    /\ Len(ecalls[e]) = 2

\* The status writes a cycle has issued, in order.
StatusWrites(e) == SelectSeq(ewrites[e], LAMBDA w : w.op = "status")

\* The result of the cycle for a record.
ResultOf(e, c) ==
  eresults[e][CHOOSE k \in DOMAIN eresults[e] : eresults[e][k].call_id = c]

ExtractionFailed(r) == r.outcome \in {"network error", "error response"}

\* The cycle issued a field update for the record and it did not take effect.
FieldWriteFailed(e, c) ==
  \E p \in DOMAIN ewrites[e] :
    /\ ewrites[e][p].op = "fields"
    /\ ewrites[e][p].call_id = c
    /\ ~ewrites[e][p].applied

\* C12: the gpt_status a cycle writes for a record is -1 when the request to
\* the extraction provider failed (network error or error response), and is 2
\* when the extraction succeeded, was skipped or returned unparseable output
\* (records whose field update failed are left aside here).
C12_StatusReflectsExtraction ==
  \A e \in Runners :
    \A k \in DOMAIN StatusWrites(e) :
      LET w == StatusWrites(e)[k]
          r == ResultOf(e, w.call_id)
      IN /\ ExtractionFailed(r) => w.value = -1
         /\ (~ExtractionFailed(r) /\ ~FieldWriteFailed(e, w.call_id)) => w.value = 2

\* C13: in a cycle's sequence of writes every field update is directly followed
\* by the gpt_status write of the same record, and a cycle that has gone
\* through its processed results has issued exactly one gpt_status write per
\* result, in the order of the results.
C13_StatusWriteAlways ==
  \A e \in Runners :
    /\ \A p \in DOMAIN ewrites[e] :
         (ewrites[e][p].op = "fields" /\ (p < Len(ewrites[e]) \/ epc[e] = "done"))
           => /\ p < Len(ewrites[e])
              /\ ewrites[e][p + 1].op = "status"
              /\ ewrites[e][p + 1].call_id = ewrites[e][p].call_id
    /\ (epc[e] = "done" /\ eresults[e] # <<>>)
         => /\ Len(StatusWrites(e)) = Len(eresults[e])
            /\ \A k \in DOMAIN eresults[e] :
                 StatusWrites(e)[k].call_id = eresults[e][k].call_id

\* A finished cycle over two records: the field update of the first threw and
\* its status write failed too, the second had nothing to update; both have a
\* status write, the first with -1.
C13_Witness ==
  \E e \in Runners :
    /\ epc[e] = "done"
    /\ Len(eresults[e]) = 2
    /\ Len(ewrites[e]) = 4
    /\ ewrites[e][2].op = "fields" /\ ~ewrites[e][2].applied
    /\ ewrites[e][3].op = "status" /\ ewrites[e][3].value = -1
    /\ ~ewrites[e][3].applied
    /\ ewrites[e][4].op = "status"
    /\ ewrites[e][4].call_id = eresults[e][2].call_id


\* -------------------------------------------------- ingestion: C14 .. C18
\* C14: a run over an unchanged snapshot set that follows a run which selected
\* more snapshots than the cap, both without a failed collaborator call, stores
\* at least one snapshot that was not stored before; otherwise every later run
\* would select and defer the same snapshots again.
C14_DeferredGetStored ==
  ( /\ SecondRunFinished /\ runLog.lookupOk
    /\ hist[1].maxToProcess > maxCallsToProcessCap )
  => DOMAIN call_logs # DOMAIN hist[1].store

\* The run has left the loop over the agents.
LoopOver == ipc = "done" /\ runLog.summary.emitted

CountersZero(r) ==
  /\ r.total_fetched = 0 /\ r.existing_calls = 0 /\ r.processed = 0
  /\ r.success = 0 /\ r.failed = 0

\* C15: while a run is in the loop the result list has one entry per agent
\* already handled, in enumeration order; every error-tagged entry has all
\* counters zero; a run that got past the enumeration logs the summary, with
\* one entry per enumerated agent and the sums of the entries' counters.
C15_AgentIsolation ==
  /\ ipc \in {"fetch", "check", "upsert"}
       => /\ Len(totalResults) = ai - 1
          /\ ai <= Len(agentIds)
  /\ \A k \in DOMAIN totalResults :
       /\ totalResults[k].agent_id = agentIds[k]
       /\ totalResults[k].error # NULL => CountersZero(totalResults[k])
  /\ ipc = "summary" => Len(totalResults) = Len(agentIds)
  /\ (ipc = "done" /\ Len(agentIds) > 0)
       => /\ runLog.summary.emitted
          /\ Len(totalResults) = Len(agentIds)
          /\ runLog.summary.agents = Len(agentIds)
          /\ \A f \in {"total_fetched", "existing_calls", "processed",
                       "success", "failed"} :
               runLog.summary[f] = SumOf(totalResults, f)

\* A finished run over two agents: the pipeline of the first threw, the second
\* was handled after it and stored its calls.
C15_Witness ==
  /\ LoopOver
  /\ Len(totalResults) = 2
  /\ totalResults[1].error # NULL
  /\ totalResults[2].error = NULL
  /\ totalResults[2].success = 1
  /\ 100 \in DOMAIN call_logs
  /\ runLog.summary.success = 1

\* C16: a run whose agent enumeration returned an error or threw ends with a
\* non-zero exit code.
C16_EnumerationFailureIsFatal ==
  (ipc = "done" /\ ~runLog.enumerated) => runLog.exitCode > 0

\* C17: every upsert of bulkUpsertCalls takes the next rows of the input, at
\* most 100 of them; it either stores them all and adds their count to
\* success, or stores nothing and adds their count to failed, and goes on with
\* the next chunk (or, for a thrown upsert, stores nothing and leaves the
\* function); the counters add up to the rows handled so far, and to n in the
\* result of the call.
C17_ChunkStep ==
  (ipc = "upsert" /\ Len(callsToProcess) > 0) =>
    LET n == Len(processedCalls)
        last == IF ui + 100 < n THEN ui + 100 ELSE n
        ids == { processedCalls[k].call_id : k \in (ui + 1)..last }
        size == last - ui
    IN \/ /\ upsertResult' = [success |-> upsertResult.success + size,
                              failed |-> upsertResult.failed]
          /\ \A k \in (ui + 1)..last :
               /\ processedCalls[k].call_id \in DOMAIN call_logs'
               /\ call_logs'[processedCalls[k].call_id].updated_at
                    = processedCalls[k].updated_at
          /\ DOMAIN call_logs' = DOMAIN call_logs \cup ids
          /\ ui' = last \/ (ui' = ui + 100 /\ last = n)
          /\ last < n => ipc' = "upsert"
       \/ /\ upsertResult' = [success |-> upsertResult.success,
                              failed |-> upsertResult.failed + size]
          /\ call_logs' = call_logs
          /\ ui' = last \/ (ui' = ui + 100 /\ last = n)
          /\ last < n => ipc' = "upsert"
       \/ /\ call_logs' = call_logs
          /\ Len(totalResults') = Len(totalResults) + 1
          /\ totalResults'[Len(totalResults')].error # NULL

C17_ChunkedUpsert ==
  /\ [][C17_ChunkStep]_vars
  /\ [](ipc = "upsert" =>
          /\ ui % 100 = 0
          /\ upsertResult.success + upsertResult.failed
               = IF ui < Len(processedCalls) THEN ui ELSE Len(processedCalls))
  /\ []((ipc \in {"summary", "done"} /\ Len(totalResults) = 1
           /\ totalResults[1].error = NULL)
          => totalResults[1].success + totalResults[1].failed
               = Len(processedCalls))

\* An upsert of more than MaxChunks * 100 rows has returned: the first chunk
\* was stored, a later full chunk failed and the last chunk was stored after it.
C17_Witness ==
  /\ ipc \in {"summary", "done"}
  /\ Len(processedCalls) = MaxChunks * 100 + 1
  /\ Len(totalResults) = 1
  /\ totalResults[1].failed = 100
  /\ totalResults[1].success = Len(processedCalls) - 100
  /\ processedCalls[1].call_id \in DOMAIN call_logs
  /\ processedCalls[Len(processedCalls)].call_id \in DOMAIN call_logs
  /\ processedCalls[Len(processedCalls) - 1].call_id \notin DOMAIN call_logs

\* C18: the result entry of an agent whose listing request failed carries an
\* error tag or a non-zero failed counter.
C18_ListingFailureRecorded ==
  \A k \in DOMAIN totalResults :
    totalResults[k].agent_id \in runLog.listingFailed
      => (totalResults[k].error # NULL \/ totalResults[k].failed > 0)


\* ------------------------------------------------ booking sync: C19, C20
\* The offset from UTC in effect in the zone at a wall-clock time of that zone.
OffsetAtWallClock(zone, wall) == ZoneOffsetAt(zone, wall - ZoneOffsetAt(zone, wall))

\* The engine has just got a booking accepted for the lead it holds.
JustBooked(g) ==
  /\ sync[g].pc = "logread"
  /\ sync[g].log.status = "success"
  /\ zt_bookings # <<>>
  /\ zt_bookings[Len(zt_bookings)].id = sync[g].log.booking

\* C19: for a lead with an appointment date D and a company timezone, the
\* booking's startBookingTime is the instant at which the zone's wall clock
\* reads D and the appointment start (06:30 when the lead has no start), that
\* is the reading less the zone's offset from UTC; endBookingTime is 60
\* minutes later and bookDate equals startBookingTime.
C19_BookingTimes ==
  \A g \in Engines :
    ( /\ JustBooked(g)
      /\ sync[g].token.timezone \in KnownZones
      /\ ~Falsy(sync[g].lead.appointment_date) )
    => LET lead == sync[g].lead
           b == zt_bookings[Len(zt_bookings)]
           wall == IF ~Falsy(lead.appointment_start)
                   THEN DayNumber(lead.appointment_date) * 1440
                          + ClockMinutes(lead.appointment_start)
                   ELSE DayNumber(lead.appointment_date) * 1440 + 390
           start == wall - OffsetAtWallClock(sync[g].token.timezone, wall)
       IN /\ b.startBookingTime = toISOString(start)
          /\ b.endBookingTime = toISOString(start + 60)
          /\ b.bookDate = b.startBookingTime

\* C20: zt_sync_logs never holds two rows with the same call_log_id.
C20_OneAuditRowPerCall ==
  \A c \in DOMAIN zt_manual_sync : Len(AuditRowsOf(c)) <= 1

\* ------------------------------------------------------------------ C21
\* The loop of a run went through every polled row (no exception left it).
RanToEnd(g) == sync[g].pc = "done" /\ ~sync[g].fatal

\* C21: with no re-enqueue, an entry that a run polled has left 'pending' (for
\* 'success' or 'failed') when that run ends.
C21_PolledLeavesPending ==
  \A g \in Engines :
    ( RanToEnd(g) /\ extChanges = 0 )
    => \A k \in DOMAIN sync[g].rows :
         zt_manual_sync[sync[g].rows[k]].status # "pending"

\* ------------------------------------------------------------------ C22
\* A step writes nothing that belongs to a call other than c.
OtherCallsUntouched(c) ==
  /\ \A d \in DOMAIN zt_manual_sync \ {c} : zt_manual_sync'[d] = zt_manual_sync[d]
  /\ Len(zt_sync_logs') >= Len(zt_sync_logs)
  /\ \A k \in DOMAIN zt_sync_logs' :
       \/ zt_sync_logs'[k].call_log_id = c
       \/ k \in DOMAIN zt_sync_logs /\ zt_sync_logs'[k] = zt_sync_logs[k]
  /\ Len(zt_bookings') >= Len(zt_bookings)
  /\ \A k \in DOMAIN zt_bookings' :
       IF k \in DOMAIN zt_bookings THEN zt_bookings'[k] = zt_bookings[k]
       ELSE zt_bookings'[k].call_id = c

\* The poll of a run: at most 10 rows, the pending entries with the smallest
\* created_at, in ascending created_at order.
PollStep(g) ==
  ( sync[g].pc = "idle" /\ sync'[g].pc # "idle" /\ ~sync'[g].fatal )
  => LET rows == sync'[g].rows
         polled == { rows[k] : k \in DOMAIN rows }
         pending == { c \in DOMAIN zt_manual_sync :
                        zt_manual_sync[c].status = "pending" }
     IN /\ Len(rows) = Min(10, Cardinality(pending))
        /\ polled \subseteq pending
        /\ Cardinality(polled) = Len(rows)
        /\ \A k \in 1..(Len(rows) - 1) :
             zt_manual_sync[rows[k]].created_at
               <= zt_manual_sync[rows[k + 1]].created_at
        /\ \A c \in pending \ polled : \A d \in polled :
             zt_manual_sync[d].created_at <= zt_manual_sync[c].created_at
        /\ sync'[g].i = 1

\* A request made for an item: it belongs to the row the loop is at, it leaves
\* the rows of every other call alone, and the loop moves on by one row, after
\* the item's last write only.
ItemStep(g) ==
  ( sync[g].pc \notin {"idle", "done"} /\ sync'[g] # sync[g] )
  => /\ sync[g].i \in DOMAIN sync[g].rows
     /\ sync'[g].rows = sync[g].rows
     /\ sync'[g].i \in {sync[g].i, sync[g].i + 1}
     /\ sync'[g].i = sync[g].i + 1 => sync[g].pc = "queue"
     /\ OtherCallsUntouched(CallId(sync[g]))

\* C22: a run handles at most 10 entries, the pending ones with the smallest
\* created_at, one at a time in ascending created_at order, and every request
\* and write of one item is made before the first request of the next item.
C22_StrictlySequential ==
  [][ \A g \in Engines : PollStep(g) /\ ItemStep(g) ]_vars

\* A run that found more than 10 pending entries has handled its 10 rows, and
\* an entry it did not poll is still pending.
C22_Witness ==
  \E g \in Engines :
    /\ sync[g].pc = "done"
    /\ Len(sync[g].rows) = 10
    /\ sync[g].i = 11
    /\ \E c \in DOMAIN zt_manual_sync :
         /\ zt_manual_sync[c].status = "pending"
         /\ \A k \in DOMAIN sync[g].rows : sync[g].rows[k] # c

\* ------------------------------------------------------------------ C23
\* The selection step of a cycle of process e.
SelectionStep(e) == epc[e] = "idle" /\ epc'[e] # "idle"

\* C23: a record whose enrichment was recorded as failed (gpt_status = -1) is
\* among the records the next cycle selects, with no write from outside.
C23_FailedSelectedAgain ==
  [][ \A e \in Runners :
        SelectionStep(e)
        => \A c \in DOMAIN call_logs :
             call_logs[c].gpt_status = -1
             => \E i \in DOMAIN ecalls'[e] : ecalls'[e][i].call_id = c ]_vars

\* ------------------------------------------------------------------ C24
EnrichableFields ==
  {"appointment_date", "appointment_time", "appointment_start", "appointment_end",
   "client_name", "client_address", "client_email", "summary", "quick_summary",
   "job_description", "job_type"}

\* C24: for every selected record and every enrichable field f, the update
\* built for the record contains f exactly when the stored value of f is null
\* and the extraction result's value for f is non-null, and then carries the
\* extraction result's value for f.
C24_UpdateConstruction ==
  \A e \in Runners : \A k \in DOMAIN eresults[e] :
    LET call == ecalls[e][k]
        r == eresults[e][k]
    IN \A f \in EnrichableFields :
         /\ f \in DOMAIN r.updateData
              <=> ( call[f] = NULL /\ r.extracted[f] # NULL )
         /\ f \in DOMAIN r.updateData => r.updateData[f] = r.extracted[f]

\* ------------------------------------------------------------------ C25
\* A batch of extraction calls of process e has been joined.
BatchJoined(e) ==
  /\ epc[e] = "extract"
  /\ epc'[e] \in {"extract", "fields"}
  /\ <<epc'[e], ei'[e]>> # <<epc[e], ei[e]>>

\* The writes of updateCallsInDatabase that process e has issued.
UpdateWrites(e) ==
  SelectSeq(ewrites[e], LAMBDA w : w.op \in {"fields", "status"})

\* C25: a batch holds at most 5 extraction calls and only the last batch holds
\* fewer than 5 records; the results of a batch are appended when the whole
\* batch is done, before the next batch starts; the list of results has one
\* entry per selected record, in selection order; no field update and no final
\* status write is issued before all batches are done.
C25_BoundedFanOut ==
  /\ [][ \A e \in Runners :
           BatchJoined(e)
           => LET before == eresults[e]
                  after == eresults'[e]
                  n == Len(after) - Len(before)
              IN /\ n >= 1 /\ n <= 5
                 /\ SubSeq(after, 1, Len(before)) = before
                 /\ n < 5 => Len(after) = Len(ecalls[e])
                 /\ epc'[e] = "fields" <=> Len(after) = Len(ecalls[e]) ]_vars
  /\ [] \A e \in Runners :
          /\ \A k \in DOMAIN eresults[e] :
               k <= Len(ecalls[e]) /\ eresults[e][k].call_id = ecalls[e][k].call_id
          /\ epc[e] \in {"fields", "status"} => Len(eresults[e]) = Len(ecalls[e])
          /\ Len(UpdateWrites(e)) > 0
             => /\ Len(eresults[e]) = Len(ecalls[e])
                /\ epc[e] \in {"fields", "status", "done"}

\* A cycle that selected more than 5 records has extracted for a record of the
\* second batch and has written the fields of a record of the first.
C25_Witness ==
  \E e \in Runners :
    /\ Len(ecalls[e]) > 5
    /\ Len(eresults[e]) = Len(ecalls[e])
    /\ eresults[e][6].called
    /\ \E k \in DOMAIN ewrites[e] :
         ewrites[e][k].op = "fields" /\ ewrites[e][k].call_id = eresults[e][1].call_id

\* ------------------------------------------------------------------ C26
\* C26: a cycle b whose selection runs after the reservation write of a cycle
\* a has taken effect selects none of the records a reserved; two cycles hold
\* the same record only when the selection of each came before the
\* reservation of the other.
C26_ReservationExcludes ==
  [][ \A a \in Runners : \A b \in Runners \ {a} :
        ( SelectionStep(b) /\ Reserved(a) )
        => \A i \in DOMAIN ecalls'[b] :
             ecalls'[b][i].call_id \notin SelectedIds(a) ]_vars

\* Cycle a has reserved its records and is extracting; the selection of cycle
\* b ran later (the clock has moved since the reservation write) and cycle b
\* ended with nothing to do.
C26_Witness ==
  \E a \in Runners : \E b \in Runners \ {a} :
    /\ Reserved(a)
    /\ epc[a] = "extract"
    /\ \A c \in SelectedIds(a) :
         call_logs[c].gpt_status = 1 /\ call_logs[c].updated_at < now
    /\ eruns[b] = 1
    /\ epc[b] = "done"
    /\ ecalls[b] = <<>>

\* ------------------------------------------------------------------ C27
\* The steps that lead one item to its booking request, each entered from the
\* step before it only: the load of the ended call record, the authentication
\* and the validation of that record, the 'pending' audit write, the request.
AttemptOrder(g) ==
  LET s == sync[g]
      t == sync'[g]
  IN /\ ( t.pc = "token" /\ s.pc # "token" )
        => /\ s.pc = "lead"
           /\ t.i = s.i
           /\ t.lead = call_logs[CallId(s)]
           /\ t.lead.call_status = "ended"
     /\ ( t.pc = "logread" /\ t.after = "book" /\ s.pc # "logread" )
        => /\ s.pc = "token"
           /\ t.i = s.i
           /\ s.token = NoToken
           /\ t.token.token # NULL
           /\ t.validated
           /\ t.validation = validateLeadData(s.lead, now)
           /\ t.validation.isValid
           /\ t.log = [status |-> "pending", booking |-> NULL, msg |-> NULL]
     /\ ( t.pc = "logwrite" /\ s.pc # "logwrite" ) => s.pc = "logread" /\ t.log = s.log
     /\ ( t.pc = "book" /\ s.pc # "book" )
        => /\ s.pc = "logwrite"
           /\ t.i = s.i
           /\ s.log.status = "pending"
           /\ ~s.handler
           /\ t.lead = s.lead /\ t.token = s.token
     /\ ( s.pc = "book" /\ t.booked # s.booked )
        => /\ t.booked = s.booked \cup {CallId(s)}
           /\ s.lead.call_id = CallId(s)
           /\ s.lead.call_status = "ended"
           /\ s.token.token # NULL
           /\ s.validated /\ s.validation.isValid
           /\ s.log.status = "pending"

\* C27: every booking-creation call made for a call_id is preceded, within the
\* processing of the same queue item and in this order, by the load of the
\* ended call record, an authentication made for that item, a passing
\* validation and a 'pending' audit write for that call_id.
C27_AttemptOrder ==
  [][ \A g \in Engines : AttemptOrder(g) ]_vars

\* The booking request of the second item of a run has been answered.
C27_Witness ==
  \E g \in Engines :
    /\ sync[g].i = 2
    /\ sync[g].pc = "logread"
    /\ sync[g].log.status \in {"success", "failed"}
    /\ CallId(sync[g]) \in sync[g].booked
    /\ ~sync[g].handler

\* ------------------------------------------------------------------ C28
\* The processing of an item ends on the success path, the provider-failure
\* path or the exception path: its last audit write has taken effect and its
\* queue update takes effect.
AttemptHandled(g) ==
  /\ sync[g].pc = "queue"
  /\ sync[g].handler \/ CallId(sync[g]) \in sync[g].booked
  /\ sync[g].logged
  /\ sync'[g].pc # "queue"
  /\ zt_manual_sync'[CallId(sync[g])].status = sync[g].queue.status

\* C28: when the processing of an item has finished on one of these paths, an
\* audit row and the queue entry of its call_id carry the same status, the
\* same zt_booking_id and the same error message.
C28_AuditAndQueueAgree ==
  [][ \A g \in Engines :
        AttemptHandled(g)
        => LET entry == zt_manual_sync'[CallId(sync[g])]
           IN \E k \in DOMAIN zt_sync_logs' :
                /\ zt_sync_logs'[k].call_log_id = CallId(sync[g])
                /\ zt_sync_logs'[k].sync_status = entry.status
                /\ zt_sync_logs'[k].zt_booking_id = entry.zt_booking_id
                /\ zt_sync_logs'[k].error_message = entry.error_message ]_vars

\* ------------------------------------------------------------------ C29
\* The call record of the item process g is at does not exist or has not ended.
LeadMissing(g) ==
  \/ CallId(sync[g]) \notin DOMAIN call_logs
  \/ call_logs[CallId(sync[g])].call_status # "ended"

LeadNotFoundMessage(c) == "Lead not found: " \o ToString(c)

\* C29: for an item whose call record does not exist or has not ended, no
\* authentication and no booking request is made; the read of the record once
\* answered, the item is handled as a failure whose message names the call_id;
\* and its audit row and its queue entry, once written, are 'failed' with that
\* message.
C29_MissingLeadFails ==
  /\ [] \A g \in Engines :
          ( sync[g].pc \notin {"idle", "done", "lead"} /\ LeadMissing(g) )
          => /\ sync[g].handler
             /\ sync[g].token = NoToken
             /\ ~sync[g].validated
             /\ CallId(sync[g]) \notin sync[g].booked
             /\ \A k \in DOMAIN zt_bookings : zt_bookings[k].call_id # CallId(sync[g])
             /\ sync[g].log.status = "failed"
             /\ sync[g].queue.status = "failed"
             /\ sync[g].log.msg \in {LeadNotFoundMessage(CallId(sync[g])), StoreThrown}
             /\ sync[g].queue.msg = sync[g].log.msg
  /\ [][ \A g \in Engines :
           ( /\ sync[g].pc = "queue"
             /\ LeadMissing(g)
             /\ sync[g].log.msg # StoreThrown
             /\ sync[g].logged
             /\ zt_manual_sync'[CallId(sync[g])] # zt_manual_sync[CallId(sync[g])] )
           => /\ zt_manual_sync'[CallId(sync[g])].status = "failed"
              /\ zt_manual_sync'[CallId(sync[g])].error_message
                   = LeadNotFoundMessage(CallId(sync[g]))
              /\ \E k \in DOMAIN zt_sync_logs :
                   /\ zt_sync_logs[k].call_log_id = CallId(sync[g])
                   /\ zt_sync_logs[k].sync_status = "failed"
                   /\ zt_sync_logs[k].zt_booking_id = NULL
                   /\ zt_sync_logs[k].error_message
                        = LeadNotFoundMessage(CallId(sync[g])) ]_vars

\* The item of a call that has not ended and the item of a call without a
\* record have both been handled.
C29_Witness ==
  /\ 3 \in DOMAIN call_logs /\ call_logs[3].call_status = "ongoing"
  /\ 4 \notin DOMAIN call_logs
  /\ \A c \in {3, 4} :
       /\ zt_manual_sync[c].status = "failed"
       /\ zt_manual_sync[c].error_message = LeadNotFoundMessage(c)
       /\ \E k \in DOMAIN zt_sync_logs :
            /\ zt_sync_logs[k].call_log_id = c
            /\ zt_sync_logs[k].sync_status = "failed"

\* ------------------------------------------------------------------ C30
\* The transcript of a selected record is absent or has at most 50 characters.
ShortTranscript(call) ==
  call.transcript = NULL \/ TextLength(call.transcript) <= 50

\* C30: when a cycle that reserved its records has ended, for every selected
\* record with an absent or short transcript no extraction call was made, no
\* field update was issued, and the status write with gpt_status 2 was issued.
C30_ShortTranscriptCompleted ==
  \A e \in Runners :
    ( epc[e] = "done" /\ Reserved(e) )
    => \A k \in DOMAIN ecalls[e] :
         ShortTranscript(ecalls[e][k])
         => /\ k \in DOMAIN eresults[e] => ~eresults[e][k].called
            /\ \A p \in DOMAIN ewrites[e] :
                 ewrites[e][p].op = "fields"
                 => ewrites[e][p].call_id # ecalls[e][k].call_id
            /\ \E p \in DOMAIN ewrites[e] :
                 /\ ewrites[e][p].op = "status"
                 /\ ewrites[e][p].call_id = ecalls[e][k].call_id
                 /\ ewrites[e][p].value = 2

\* ------------------------------------------------------------------ C31
GptStatusMoves == { <<0, 1>>, <<1, 2>>, <<1, -1>> }

\* C31: the gpt_status of a record changes only along 0 -> 1, 1 -> 2 and
\* 1 -> -1, under any interleaving of enrichment runs and ingestion runs.
C31_GptStatusNeverRegresses ==
  [][ \A c \in DOMAIN call_logs :
        /\ c \in DOMAIN call_logs'
        /\ \/ call_logs'[c].gpt_status = call_logs[c].gpt_status
           \/ <<call_logs[c].gpt_status, call_logs'[c].gpt_status>> \in GptStatusMoves
    ]_vars

\* ------------------------------------------------------------------ C32
\* The cycle of process e reserved its records and went through
\* updateCallsInDatabase for every one of them.
RanToCompletion(e) ==
  /\ epc[e] = "done"
  /\ Reserved(e)
  /\ Len(eresults[e]) = Len(ecalls[e])
  /\ Len(StatusWrites(e)) = Len(ecalls[e])

\* C32: when a cycle whose reservation write succeeded has run to completion,
\* every record it reserved has gpt_status 2 or -1, for any outcome of the
\* field and status writes.
C32_NoneLeftProcessing ==
  \A e \in Runners :
    RanToCompletion(e)
    => \A c \in SelectedIds(e) : call_logs[c].gpt_status \in {2, -1}

\* ------------------------------------------------------------------ C33
\* C33: in every per-agent result, success + failed = processed,
\* processed <= total_fetched and existing_calls <= total_fetched.
C33_CountersConsistent ==
  \A k \in DOMAIN totalResults :
    /\ totalResults[k].success + totalResults[k].failed = totalResults[k].processed
    /\ totalResults[k].processed <= totalResults[k].total_fetched
    /\ totalResults[k].existing_calls <= totalResults[k].total_fetched

\* ------------------------------------------------------------------ C34
\* The bookings the platform created for call c.
BookingsOf(c) == { k \in DOMAIN zt_bookings : zt_bookings[k].call_id = c }

\* C34: with no entry re-enqueued from outside, the booking platform is never
\* asked again for a call_id it has answered with success, so it holds at most
\* one booking per call_id.
C34_NoDuplicateBooking ==
  extChanges = 0
  => \A c \in DOMAIN zt_manual_sync : Cardinality(BookingsOf(c)) <= 1

\* ------------------------------------------------------------------ C35
\* The columns an enrichment cycle may write.
EnrichmentFrame == {"gpt_status", "updated_at"} \cup EnrichedColumns

\* Row c is the same before and after the step outside the columns of cols.
SameOutside(c, cols) ==
  /\ DOMAIN call_logs'[c] = DOMAIN call_logs[c]
  /\ \A col \in DOMAIN call_logs[c] \ cols : call_logs'[c][col] = call_logs[c][col]

\* C35: a step of an enrichment cycle adds and removes no record, leaves every
\* record the cycle did not select as it was, and on a selected record changes
\* nothing outside gpt_status, updated_at and the enriched columns; call_id,
\* agent_id, call_status and transcript keep their values.
C35_EnrichmentFrame ==
  [][ \A e \in Runners :
        epc'[e] # epc[e]
        => /\ DOMAIN call_logs' = DOMAIN call_logs
           /\ \A c \in DOMAIN call_logs :
                IF c \in SelectedIds(e)
                THEN SameOutside(c, EnrichmentFrame)
                ELSE call_logs'[c] = call_logs[c] ]_vars

\* A cycle that selected one record and not the other has applied a field
\* update and the status update to the selected one.
C35_Witness ==
  \E e \in Runners : \E c \in SelectedIds(e) :
    /\ DOMAIN call_logs \ SelectedIds(e) # {}
    /\ \E k \in DOMAIN ewrites[e] :
         /\ ewrites[e][k].op = "fields"
         /\ ewrites[e][k].call_id = c
         /\ ewrites[e][k].applied
    /\ \E k \in DOMAIN ewrites[e] :
         /\ ewrites[e][k].op = "status"
         /\ ewrites[e][k].call_id = c
         /\ ewrites[e][k].applied
    /\ call_logs[c].gpt_status = 2
    /\ \E col \in EnrichedColumns : call_logs[c][col] # NULL

====
